---- MODULE Spec2Model ----
(***************************************************************************)
(* Stock price cache: the series merge, the storage manager, the retrying  *)
(* fetcher, the StockCache coordinator / batch driver and the standalone   *)
(* download script, each as a state machine over one shared set of         *)
(* variables.  A specification per component leaves the other components'  *)
(* variables at their idle values.                                          *)
(***************************************************************************)
EXTENDS Integers, Sequences, FiniteSets, TLC

(***************************************************************************)
(* Bounds of the model.                                                     *)
(***************************************************************************)
\* trading dates are 1..MaxDate ('%Y-%m-%d' strings compare like the dates)
MaxDate == 3

\* JQFetcher.max_retry ranges over 0..MaxRetry
MaxRetry == 3
\* JQFetcher.retry_delay ranges over 1..MaxDelay seconds
MaxDelay == 2

\* raw stock codes are strings of at most MaxCodeLen characters
MaxCodeLen == 4

\* StockCache objects built in one process
MaxBuilds == 2

\* a frame handed to the validator holds at most MaxRows rows
MaxRows == 2

Dates == 1..MaxDate
\* a row's column values: two distinguishable payloads
Vals == {"p", "q"}

\* one row of a DataFrame: its index label (the date) and its column values
Row == [date : Dates, val : Vals]

\* Python's None where a DataFrame is expected (no row of a frame has date 0)
None == <<[date |-> 0, val |-> "None"]>>

(***************************************************************************)
(* DataFrames as sequences of rows.                                         *)
(***************************************************************************)
\* the dates of a frame's index, as a set
DateSet(df) == {df[i].date : i \in 1..Len(df)}

\* the n smallest-first listing of a set of dates
RECURSIVE SortedDates(_)
SortedDates(S) ==
    IF S = {} THEN <<>>
    ELSE LET m == CHOOSE x \in S : \A y \in S : x <= y
         IN <<m>> \o SortedDates(S \ {m})

\* the frame with one row per date of f's domain, ascending
FrameOf(f) ==
    LET ds == SortedDates(DOMAIN f)
    IN [i \in 1..Len(ds) |-> [date |-> ds[i], val |-> f[ds[i]]]]

\* every frame whose index is strictly increasing (what the provider returns
\* and what a cache written by an earlier merge holds)
SortedFrames == {FrameOf(f) : f \in UNION {[S -> Vals] : S \in SUBSET Dates}}

StrictlyIncreasing(df) == \A i \in 1..Len(df) - 1 : df[i].date < df[i + 1].date

(***************************************************************************)
(* The merge of cached and new rows: pd.concat, drop index duplicates       *)
(* keeping the last, sort_index.                                            *)
(***************************************************************************)
\* pd.concat([cached_df, new_data])
Concat(old, new) == old \o new

\* the subsequence of df at the positions keep holds for
RECURSIVE SelectRows(_, _, _)
SelectRows(df, keep, i) ==
    IF i > Len(df) THEN <<>>
    ELSE (IF keep[i] THEN <<df[i]>> ELSE <<>>) \o SelectRows(df, keep, i + 1)

\* a mutated de-duplication: index.duplicated(keep='first')
DropDuplicatedKeepFirst(df) ==
    SelectRows(df, [i \in 1..Len(df) |->
                      ~ \E j \in 1..(i - 1) : df[j].date = df[i].date], 1)

\* df[~df.index.duplicated(keep='last')]: a row is dropped when a later row
\* carries the same index label
DropDuplicatedKeepLast(df) ==
    SelectRows(df, [i \in 1..Len(df) |->
                      ~ \E j \in (i + 1)..Len(df) : df[j].date = df[i].date], 1)

\* a mutated sort: the frame is left in concatenation order
SortIndexSkipped(df) == df

\* df.sort_index(): rows in ascending order of the index label
RECURSIVE SortIndex(_)
SortIndex(df) ==
    IF df = <<>> THEN <<>>
    ELSE LET m == CHOOSE i \in 1..Len(df) :
                      /\ \A j \in 1..Len(df) : df[i].date <= df[j].date
                      /\ \A j \in 1..(i - 1) : df[j].date # df[i].date
         IN <<df[m]>> \o SortIndex(SubSeq(df, 1, m - 1) \o SubSeq(df, m + 1, Len(df)))

\* the three merge statements of the download script
MergeFrames(old, new) == SortIndex(DropDuplicatedKeepLast(Concat(old, new)))

(***************************************************************************)
(* Stock code conversion (utils/stock_utils.py).  A string is the sequence  *)
(* of its characters; an exchange suffix is one token after the separator.  *)
(***************************************************************************)
\* the characters raw codes are built from: digits, a blank, the separator
Chars == {"0", "1", "2", "3", "6", "8", "9", " ", "."}

\* every string of at most n characters
RECURSIVE Strings(_)
Strings(n) ==
    IF n = 0 THEN {<<>>}
    ELSE Strings(n - 1) \cup
         {Append(w, c) : w \in {x \in Strings(n - 1) : Len(x) = n - 1}, c \in Chars}

\* str.lstrip() and str.rstrip() for the blank
RECURSIVE LStrip(_)
LStrip(w) == IF w # <<>> /\ w[1] = " " THEN LStrip(Tail(w)) ELSE w
RECURSIVE RStrip(_)
RStrip(w) == IF w # <<>> /\ w[Len(w)] = " " THEN RStrip(SubSeq(w, 1, Len(w) - 1)) ELSE w

\* a mutated strip: the string is taken as it is
StripSkipped(w) == w

\* stock_code.strip()
Strip(w) == RStrip(LStrip(w))

\* '.' in code
HasDot(w) == \E i \in 1..Len(w) : w[i] = "."

\* code.startswith(prefix)
StartsWith(w, prefix) ==
    Len(w) >= Len(prefix) /\ SubSeq(w, 1, Len(prefix)) = prefix

\* code.startswith((p1, p2, ...))
StartsWithAny(w, prefixes) == \E prefix \in prefixes : StartsWith(w, prefix)

\* the outcome of convert_to_jq_code: the string returned, or the ValueError
Converted(code) == [status |-> "ok", code |-> code]
ValueError == [status |-> "ValueError", code |-> <<>>]

\* f"{code}.XSHG" and the like
WithSuffix(code, exchange) == code \o <<".", exchange>>

\* a mutated rule table: an unrecognised code is handed back as it is
PrefixRulesNoError(code) ==
    IF StartsWithAny(code, {<<"6", "0">>, <<"9", "0", "0">>})
    THEN Converted(WithSuffix(code, "XSHG"))
    ELSE IF StartsWithAny(code, {<<"0", "0">>, <<"3", "0">>, <<"2", "0", "0">>})
    THEN Converted(WithSuffix(code, "XSHE"))
    ELSE IF StartsWith(code, <<"6", "8", "8">>)
    THEN Converted(WithSuffix(code, "XSHG"))
    ELSE IF StartsWith(code, <<"8">>)
    THEN Converted(WithSuffix(code, "BJ"))
    ELSE Converted(code)

\* the if/elif chain of convert_to_jq_code on a code without separator
PrefixRules(code) ==
    IF StartsWithAny(code, {<<"6", "0">>, <<"9", "0", "0">>})
    THEN Converted(WithSuffix(code, "XSHG"))
    ELSE IF StartsWithAny(code, {<<"0", "0">>, <<"3", "0">>, <<"2", "0", "0">>})
    THEN Converted(WithSuffix(code, "XSHE"))
    ELSE IF StartsWith(code, <<"6", "8", "8">>)
    THEN Converted(WithSuffix(code, "XSHG"))
    ELSE IF StartsWith(code, <<"8">>)
    THEN Converted(WithSuffix(code, "BJ"))
    ELSE ValueError

\* a mutated pass-through: a qualified code is qualified again
PassThroughRequalified(code) == PrefixRules(code)

\* if '.' in code: return code
PassThrough(code) == Converted(code)

\* convert_to_jq_code on a string
ConvertToJqCode(stock_code) ==
    LET code == Strip(stock_code)
    IN IF HasDot(code) THEN PassThrough(code) ELSE PrefixRules(code)

(***************************************************************************)
(* Configuration (config.py) and its merge in StockCache.__init__.  A dict  *)
(* is a function from its keys; the module-level dicts are shared objects.  *)
(***************************************************************************)
\* convert_stock_pool, one category: the converted codes in list order, the
\* codes that raise ValueError left out
RECURSIVE ConvertList(_)
ConvertList(stock_list) ==
    IF stock_list = <<>> THEN <<>>
    ELSE LET jq_code == ConvertToJqCode(Head(stock_list))
         IN (IF jq_code.status = "ok" THEN <<jq_code.code>> ELSE <<>>)
                \o ConvertList(Tail(stock_list))

\* convert_stock_pool
ConvertStockPool(pool) == [category \in DOMAIN pool |-> ConvertList(pool[category])]

\* get_all_stocks_from_pool: the set of the codes of all lists, converted
\* again, the ones that raise ValueError left out
GetAllStocksFromPool(pool) ==
    UNION {{ConvertToJqCode(pool[category][i]).code :
               i \in {j \in 1..Len(pool[category]) :
                         ConvertToJqCode(pool[category][j]).status = "ok"}} :
           category \in DOMAIN pool}

\* config.pool_stocks, config.jq_params and config.storage_config as the
\* module defines them (short codes stand for the six-digit ones)
PoolStocksDefault ==
    [category \in {"core", "grid"} |->
        IF category = "core" THEN << <<"6", "0", "1">>, <<"0", "0", "2">> >>
        ELSE << <<"6", "0", "1">>, <<"3", "0", "0">> >>]
JqParamsDefault == [k \in {"end_date"} |-> MaxDate]
StorageDefault == [k \in {"format", "compression"} |->
                      IF k = "format" THEN "parquet" ELSE "snappy"]

\* the module-level dicts, by the key _merge_configs files them under
ConfigDefaults ==
    [key \in {"pool_stocks", "jq_params", "storage"} |->
        IF key = "pool_stocks" THEN PoolStocksDefault
        ELSE IF key = "jq_params" THEN JqParamsDefault
        ELSE StorageDefault]

\* the dict values a custom_config may carry under each key
CustomValues(key) ==
    IF key = "pool_stocks"
    THEN {[category \in {"core"} |-> << <<"8">>, <<"1">>, <<"8">> >>],
          [category \in {"extra"} |-> << <<" ", "0", "0">>, <<"6", "0", ".", "X">> >>]}
    ELSE IF key = "jq_params" THEN {[k \in {"end_date"} |-> d] : d \in Dates}
    ELSE {[k \in {"format"} |-> "csv"]}

\* the custom_config dicts of the model
CustomConfigs ==
    UNION {{f \in [K -> UNION {CustomValues(key) : key \in K}] :
               \A key \in K : f[key] \in CustomValues(key)} :
           K \in SUBSET {"pool_stocks", "jq_params", "storage"}}

\* dict.update(value), in place: what the object target holds afterwards
DictUpdate(target, value) ==
    [k \in DOMAIN target \cup DOMAIN value |->
        IF k \in DOMAIN value THEN value[k] ELSE target[k]]

\* _merge_configs: what the module-level dicts hold after the call; a given
\* custom_config updates the dict objects default_config.copy() shares with
\* the module
MergeConfigsGlobals(globals, given, custom_config) ==
    IF ~ given THEN globals
    ELSE [key \in DOMAIN globals |->
            IF key \in DOMAIN custom_config
            THEN DictUpdate(globals[key], custom_config[key])
            ELSE globals[key]]

\* _merge_configs: the dict it returns, whose values are the module's dict
\* objects themselves
MergeConfigs(globals, given, custom_config) ==
    MergeConfigsGlobals(globals, given, custom_config)

(***************************************************************************)
(* The storage manager: paths, file contents, save and load.               *)
(***************************************************************************)
\* an identifier as its tokens: number, separator, exchange
Code1 == <<"601888", ".", "XSHG">>
Code2 == <<"002594", ".", "XSHE">>

\* stock_code.replace('.', '_')
ReplaceDots(code) == [i \in DOMAIN code |-> IF code[i] = "." THEN "_" ELSE code[i]]

\* year_dir = None (a falsy year_dir selects the base directory)
NoYear == "None"
\* get_listing_year: the listing year found, and the year used when none is found
ListedYear == "2010"
DefaultYear == "2000"
YearDirs == {NoYear, ListedYear, DefaultYear}

\* the base directory itself
BaseDir == "."

\* self.format values: the two supported formats and an unsupported one
Formats == {"parquet", "csv", "json"}

\* the file names the model's identifiers map to
FileNames == {ReplaceDots(Code1), ReplaceDots(Code2)}

\* every file path of the model: directory under base_path, name, extension
Paths == [dir : {BaseDir, ListedYear, DefaultYear}, name : FileNames, ext : Formats]

\* get_file_path's return value
GetFilePath(fmt, stock_code, year_dir) ==
    [dir  |-> IF year_dir # NoYear THEN year_dir ELSE BaseDir,
     name |-> ReplaceDots(stock_code),
     ext  |-> fmt]

\* get_file_path's side effect: os.makedirs(file_dir, exist_ok=True) under a
\* truthy year_dir
GetFilePathDirs(ds, year_dir) ==
    IF year_dir # NoYear THEN ds \cup {year_dir} ELSE ds

\* what a path holds on disk
NoFile == [kind |-> "nofile", index |-> <<>>, cols |-> <<>>, lines |-> <<>>]
\* bytes no reader parses (a truncated or foreign file)
Corrupt == [kind |-> "corrupt", index |-> <<>>, cols |-> <<>>, lines |-> <<>>]

\* pa.Table.from_pandas + pq.write_table: the index and each column stored
\* as arrays
WriteParquet(df) ==
    [kind  |-> "parquet",
     index |-> [i \in 1..Len(df) |-> df[i].date],
     cols  |-> [i \in 1..Len(df) |-> df[i].val],
     lines |-> <<>>]

\* pq.read_table(...).to_pandas(): rows rebuilt from the arrays
ReadParquet(c) ==
    [i \in 1..Len(c.index) |-> [date |-> c.index[i], val |-> c.cols[i]]]

\* the text of a date and of a value in a delimited-text line
DateText(d) == <<"date", d>>
ValText(v) == <<"num", v>>

\* data.to_csv(index=True): one text line per row, the index label first
WriteCsv(df) ==
    [kind  |-> "csv",
     index |-> <<>>,
     cols  |-> <<>>,
     lines |-> [i \in 1..Len(df) |-> <<DateText(df[i].date), ValText(df[i].val)>>]]

\* a mutated reader: read_csv without index_col=0, the frame gets a fresh
\* 0..n-1 index and the dates stay a text column
ReadCsvNoIndexCol(c) ==
    [i \in 1..Len(c.lines) |-> [date |-> i - 1, val |-> c.lines[i][2][2]]]

\* pd.read_csv(index_col=0, parse_dates=True): the first field of a line is
\* the index label, parsed as a date
ReadCsv(c) ==
    [i \in 1..Len(c.lines) |-> [date |-> c.lines[i][1][2], val |-> c.lines[i][2][2]]]

\* the outcome of a storage call
StOut(status, df, path, fs, ds) ==
    [status |-> status, df |-> df, path |-> path, files |-> fs, dirs |-> ds]

\* a mutated save_data: the path is computed before the emptiness check
SaveDataPathFirst(fmt, fs, ds, data, stock_code, year_dir) ==
    LET p == GetFilePath(fmt, stock_code, year_dir)
        ds2 == GetFilePathDirs(ds, year_dir)
    IN IF data = None \/ data = <<>>
       THEN StOut("ValueError_empty", None, p, fs, ds2)
       ELSE IF fmt = "parquet"
       THEN StOut("ok", None, p, [fs EXCEPT ![p] = WriteParquet(data)], ds2)
       ELSE IF fmt = "csv"
       THEN StOut("ok", None, p, [fs EXCEPT ![p] = WriteCsv(data)], ds2)
       ELSE StOut("ValueError_format", None, p, fs, ds2)

\* StorageManager.save_data
SaveData(fmt, fs, ds, data, stock_code, year_dir) ==
    IF data = None \/ data = <<>>
    THEN StOut("ValueError_empty", None, GetFilePath(fmt, stock_code, year_dir), fs, ds)
    ELSE LET p == GetFilePath(fmt, stock_code, year_dir)
             ds2 == GetFilePathDirs(ds, year_dir)
         IN IF fmt = "parquet"
            THEN StOut("ok", None, p, [fs EXCEPT ![p] = WriteParquet(data)], ds2)
            ELSE IF fmt = "csv"
            THEN StOut("ok", None, p, [fs EXCEPT ![p] = WriteCsv(data)], ds2)
            ELSE StOut("ValueError_format", None, p, fs, ds2)

\* a mutated load_data: the reader's exception is not caught
LoadDataUncaught(fmt, fs, ds, stock_code, year_dir) ==
    LET p == GetFilePath(fmt, stock_code, year_dir)
        ds2 == GetFilePathDirs(ds, year_dir)
    IN IF fs[p].kind = "nofile"
       THEN StOut("returned", None, p, fs, ds2)
       ELSE IF fmt = "parquet" /\ fs[p].kind = "parquet"
       THEN StOut("returned", ReadParquet(fs[p]), p, fs, ds2)
       ELSE IF fmt = "csv" /\ fs[p].kind = "csv"
       THEN StOut("returned", ReadCsv(fs[p]), p, fs, ds2)
       ELSE StOut("raised", None, p, fs, ds2)

\* StorageManager.load_data: None when the file is missing, None when the
\* reader (or the unsupported-format branch) raises
LoadData(fmt, fs, ds, stock_code, year_dir) ==
    LET p == GetFilePath(fmt, stock_code, year_dir)
        ds2 == GetFilePathDirs(ds, year_dir)
    IN IF fs[p].kind = "nofile"
       THEN StOut("returned", None, p, fs, ds2)
       ELSE IF fmt = "parquet" /\ fs[p].kind = "parquet"
       THEN StOut("returned", ReadParquet(fs[p]), p, fs, ds2)
       ELSE IF fmt = "csv" /\ fs[p].kind = "csv"
       THEN StOut("returned", ReadCsv(fs[p]), p, fs, ds2)
       ELSE StOut("returned", None, p, fs, ds2)

\* StorageManager.delete_data
DeleteData(fmt, fs, ds, stock_code, year_dir) ==
    LET p == GetFilePath(fmt, stock_code, year_dir)
        ds2 == GetFilePathDirs(ds, year_dir)
    IN IF fs[p].kind # "nofile"
       THEN StOut("True", None, p, [fs EXCEPT ![p] = NoFile], ds2)
       ELSE StOut("False", None, p, fs, ds2)

\* the frame the reader of a file's own kind gives back
FrameOfFile(content) ==
    IF content.kind = "parquet" THEN ReadParquet(content) ELSE ReadCsv(content)

\* StorageManager.file_exists
FileExists(fmt, fs, ds, stock_code, year_dir) ==
    LET p == GetFilePath(fmt, stock_code, year_dir)
        ds2 == GetFilePathDirs(ds, year_dir)
    IN StOut(IF fs[p].kind # "nofile" THEN "True" ELSE "False", None, p, fs, ds2)

\* StorageManager.get_file_size: os.path.getsize of the file, 0 without one
GetFileSize(fmt, fs, ds, stock_code, year_dir) ==
    LET p == GetFilePath(fmt, stock_code, year_dir)
        ds2 == GetFilePathDirs(ds, year_dir)
    IN StOut(IF fs[p].kind # "nofile" THEN "getsize" ELSE "0", None, p, fs, ds2)

\* the file names of the model in sorted order
SortedNames == <<ReplaceDots(Code2), ReplaceDots(Code1)>>

\* StorageManager.list_files: [] when the directory is missing, else the
\* sorted names in it that end with the configured extension
ListFiles(fmt, fs, ds, year_dir) ==
    LET target_dir == IF year_dir # NoYear THEN year_dir ELSE BaseDir
        InDir(name) == fs[[dir |-> target_dir, name |-> name, ext |-> fmt]].kind # "nofile"
    IN IF target_dir # BaseDir /\ target_dir \notin ds
       THEN StOut("returned", <<>>, GetFilePath(fmt, Code1, NoYear), fs, ds)
       ELSE StOut("returned", SelectSeq(SortedNames, InDir),
                  GetFilePath(fmt, Code1, NoYear), fs, ds)

\* the outcome of convert_format: its return value, self.format afterwards,
\* the path save_data wrote (or load_data looked at), and the disk
CvOut(ret, fmt, path, fs, ds) ==
    [ret |-> ret, format |-> fmt, path |-> path, files |-> fs, dirs |-> ds]

\* a mutated convert_format: the except clause does not put the format back
ConvertFormatNoRestore(fmt, fs, ds, stock_code, new_format, year_dir) ==
    LET ld == LoadData(fmt, fs, ds, stock_code, year_dir)
    IN IF ld.df = None THEN CvOut("False", fmt, ld.path, ld.files, ld.dirs)
       ELSE LET sv == SaveData(new_format, ld.files, ld.dirs, ld.df, stock_code, year_dir)
            IN IF sv.status = "ok"
               THEN CvOut("True", fmt, sv.path, sv.files, sv.dirs)
               ELSE CvOut("False", new_format, sv.path, sv.files, sv.dirs)

\* StorageManager.convert_format: load_data under the configured format;
\* self.format = new_format, save_data, self.format = old_format, on the
\* normal path and in the except clause alike
ConvertFormat(fmt, fs, ds, stock_code, new_format, year_dir) ==
    LET ld == LoadData(fmt, fs, ds, stock_code, year_dir)
    IN IF ld.df = None THEN CvOut("False", fmt, ld.path, ld.files, ld.dirs)
       ELSE LET old_format == fmt
                sv == SaveData(new_format, ld.files, ld.dirs, ld.df, stock_code, year_dir)
            IN IF sv.status = "ok"
               THEN CvOut("True", old_format, sv.path, sv.files, sv.dirs)
               ELSE CvOut("False", old_format, sv.path, sv.files, sv.dirs)

(***************************************************************************)
(* The retrying fetcher.                                                    *)
(***************************************************************************)
\* cache_config['max_retry'] and cache_config['retry_delay']
CfgMaxRetry == 3
CfgRetryDelay == 5

\* an entry of the fetcher's event log
Ev(ev, df) == [ev |-> ev, df |-> df]

\* a mutated retry test: attempt < self.max_retry
ShouldRetryOffByOne(attempt, max_retry) == attempt < max_retry

\* attempt < self.max_retry - 1: another attempt follows this failed one
ShouldRetry(attempt, max_retry) == attempt < max_retry - 1

\* the number of log entries whose event is in evs
CountEv(log, evs) == Cardinality({i \in 1..Len(log) : log[i].ev \in evs})

(***************************************************************************)
(* The StockCache coordinator: cache metadata, fetch, download of one      *)
(* identifier.                                                              *)
(***************************************************************************)
\* the flattened, de-duplicated stock pool
Universe == {Code1, Code2}

\* jq_params['start_date']: the first date of the model
CfgStartDate == 1

\* the keys of config.jq_params
JqParamsKeys == {"start_date", "end_date", "frequency", "fields", "fq",
                 "skip_paused", "fill_paused", "panel"}

\* the parameters get_single_stock_data binds positionally at the call in
\* _fetch_stock_data
PositionalParams == {"stock_code", "start_date", "end_date"}

\* get_single_stock_data(stock_code, start_date, end_date, **jq_params): a
\* keyword that names a positionally bound parameter is a TypeError
KwargsCollide == JqParamsKeys \cap PositionalParams # {}

\* what the provider holds for [start, end]: one row per trading date
MarketFrame(start, end) ==
    FrameOf([d \in {x \in Dates : start <= x /\ x <= end} |-> "q"])

\* the frame an earlier download left in the cache: rows through date d
CachedFrame(d) == FrameOf([x \in 1..d |-> "p"])

\* a cache metadata entry; exists = FALSE: the identifier has no entry
MetaEntry(path, start, end, rows) ==
    [exists |-> TRUE, path |-> path, start |-> start, end |-> end, rows |-> rows]
NoMeta ==
    [exists |-> FALSE, path |-> GetFilePath("parquet", Code1, NoYear),
     start |-> 0, end |-> 0, rows |-> 0]

\* CacheManager.check_cache_exists: an entry whose file is on disk
CheckCacheExists(mt, fs, stock_code) ==
    mt[stock_code].exists /\ fs[mt[stock_code].path].kind # "nofile"

\* CacheManager.determine_download_mode
DetermineDownloadMode(mt, fs, stock_code, start, end) ==
    IF ~ CheckCacheExists(mt, fs, stock_code) THEN "full"
    ELSE IF mt[stock_code].end >= end THEN "none"
    ELSE "incremental"

\* CacheManager.get_incremental_dates: the sub-range starts at the cached
\* end-date or right after it, and ends at the requested end-date
IncrementalStarts(mt, stock_code) ==
    {mt[stock_code].end, mt[stock_code].end + 1}

\* CacheManager.merge_data: nothing to merge when no new rows came; cached
\* rows (if any) and new rows concatenated, de-duplicated last-wins, sorted
MergeData(old, new) ==
    IF new = None \/ new = <<>> THEN None
    ELSE MergeFrames(IF old = None THEN <<>> ELSE old, new)

\* CacheManager.update_cache_meta
UpdateCacheMeta(mt, stock_code, path, start, end, rows) ==
    [mt EXCEPT ![stock_code] = MetaEntry(path, start, end, rows)]

Min(a, b) == IF a <= b THEN a ELSE b
Max(a, b) == IF a >= b THEN a ELSE b

\* the outcome of a fetch: how the call ended and the frame handed back
FetchOut(how, df) == [how |-> how, df |-> df]

\* JQFetcher.validate_date_range
ValidateDateRange(start, end) == start <= end

\* StockCache._fetch_stock_data: None on an invalid range, None when the
\* fetcher call raises, else the fetched frame
FetchStockData(up, start, end) ==
    IF ~ ValidateDateRange(start, end) THEN FetchOut("invalid_range", None)
    ELSE IF KwargsCollide THEN FetchOut("raised", None)
    ELSE IF ~ up THEN FetchOut("raised", None)
    ELSE FetchOut("returned", MarketFrame(start, end))

\* StockCache._load_cached_data: load_data is called without a partition
LoadCachedData(fmt, fs, ds, mt, stock_code) ==
    IF mt[stock_code].exists /\ fs[mt[stock_code].path].kind # "nofile"
    THEN LoadData(fmt, fs, ds, stock_code, NoYear).df
    ELSE None

\* the outcome of download_single_stock
DlOut(ret, mode, fetch, data, fs, ds, mt) ==
    [ret |-> ret, mode |-> mode, fetch |-> fetch.how, fetched |-> fetch.df,
     data |-> data, files |-> fs, dirs |-> ds, meta |-> mt]

NoFetch == FetchOut("not_called", None)

\* a mutated mode choice: the cache decision is skipped
DownloadModeAlwaysFull(force_full, determined) == "full"

\* download_single_stock: the mode it works in
DownloadMode(force_full, determined) ==
    IF force_full THEN "full" ELSE determined

\* a mutated emptiness test: only None counts as no data
NoValidDataNoneOnly(data) == data = None

\* download_single_stock: data is None or data.empty
NoValidData(data) == data = None \/ data = <<>>

\* a mutated tail of download_single_stock: the metadata is updated before
\* the emptiness test
SaveAndRecordMetaFirst(fmt, by_year, fs, ds, mt, stock_code, mode, fetch, data, start, end, year) ==
    LET year_dir == IF by_year THEN year ELSE NoYear
        mt2 == UpdateCacheMeta(mt, stock_code,
                               GetFilePath(fmt, stock_code, year_dir), start, end, 0)
    IN IF NoValidData(data) THEN DlOut(FALSE, mode, fetch, data, fs, ds, mt2)
       ELSE LET sv == SaveData(fmt, fs, ds, data, stock_code, year_dir)
            IN IF sv.status # "ok"
               THEN DlOut(FALSE, mode, fetch, data, sv.files, sv.dirs, mt2)
               ELSE DlOut(TRUE, mode, fetch, data, sv.files, sv.dirs,
                          UpdateCacheMeta(mt, stock_code, sv.path, start, end, Len(data)))

\* a mutated tail of download_single_stock: when there is nothing to save
\* the identifier's cache file is removed
SaveAndRecordDropsCache(fmt, by_year, fs, ds, mt, stock_code, mode, fetch, data, start, end, year) ==
    IF NoValidData(data)
    THEN DlOut(FALSE, mode, fetch, data,
               [fs EXCEPT ![mt[stock_code].path] = NoFile], ds, mt)
    ELSE LET year_dir == IF by_year THEN year ELSE NoYear
             sv == SaveData(fmt, fs, ds, data, stock_code, year_dir)
         IN IF sv.status # "ok"
            THEN DlOut(FALSE, mode, fetch, data, sv.files, sv.dirs, mt)
            ELSE DlOut(TRUE, mode, fetch, data, sv.files, sv.dirs,
                       UpdateCacheMeta(mt, stock_code, sv.path, start, end, Len(data)))

\* download_single_stock from the save on: save_data, then update_cache_meta
SaveAndRecord(fmt, by_year, fs, ds, mt, stock_code, mode, fetch, data, start, end, year) ==
    IF NoValidData(data) THEN DlOut(FALSE, mode, fetch, data, fs, ds, mt)
    ELSE LET year_dir == IF by_year THEN year ELSE NoYear
             sv == SaveData(fmt, fs, ds, data, stock_code, year_dir)
         IN IF sv.status # "ok"
            THEN DlOut(FALSE, mode, fetch, data, sv.files, sv.dirs, mt)
            ELSE DlOut(TRUE, mode, fetch, data, sv.files, sv.dirs,
                       UpdateCacheMeta(mt, stock_code, sv.path, start, end, Len(data)))

\* StockCache.download_single_stock; inc_start is the start CacheManager
\* picks for an incremental fetch, year what get_listing_year answers
DownloadSingleStock(fmt, by_year, fs, ds, mt, up, stock_code, force_full, start, end, inc_start, year) ==
    LET mode == DownloadMode(force_full,
                             DetermineDownloadMode(mt, fs, stock_code, start, end))
    IN IF mode = "none" THEN DlOut(TRUE, mode, NoFetch, None, fs, ds, mt)
       ELSE IF mode = "full"
       THEN LET fetch == FetchStockData(up, start, end)
            IN SaveAndRecord(fmt, by_year, fs, ds, mt, stock_code, mode,
                             fetch, fetch.df, start, end, year)
       ELSE LET fetch == FetchStockData(up, inc_start, end)
                old == LoadCachedData(fmt, fs, ds, mt, stock_code)
                data == MergeData(old, fetch.df)
            IN SaveAndRecord(fmt, by_year, fs, ds, mt, stock_code, mode,
                             fetch, data,
                             Min(start, mt[stock_code].start),
                             Max(end, mt[stock_code].end), year)

(***************************************************************************)
(* The standalone download script (save_stocks_data.py).  Its cache block  *)
(* is read with the try at the level of its except clause.                  *)
(***************************************************************************)
\* stock_info['start_date']: the listing date, the first date of the model
ListingDate == 1

\* how one get_price call of the script may end: an exception, a frame with
\* a row per trading date of the range, a frame of zero rows
Answers == {"raises", "rows", "empty"}

\* the frame get_price hands back for [start, end] under answer ans
ProviderFrame(ans, start, end) ==
    IF ans = "rows" THEN MarketFrame(start, end) ELSE <<>>

\* the outcome of download_stock_data_with_cache: the branch taken, whether
\* it raised, the frame returned, the get_price calls made (their number, how
\* the incremental and the full call ended, the start of the incremental
\* range), and what save_path holds afterwards
ScOut(branch, raised, df, calls, inc, full, inc_start, content) ==
    [branch |-> branch, raised |-> raised, df |-> df, calls |-> calls,
     inc |-> inc, full |-> full, inc_start |-> inc_start, content |-> content]

\* whether pd.read_csv(save_path, index_col=0, parse_dates=True) parses what
\* the file holds
CsvReadable(content) == content.kind = "csv"

\* a mutated full-download block: the frame is written whatever it holds
ScriptFullAlwaysWrites(content, latest, calls, inc, inc_start, ans_full) ==
    IF ans_full = "raises"
    THEN ScOut("full", TRUE, None, calls + 1, inc, "raises", inc_start, content)
    ELSE LET df == ProviderFrame(ans_full, ListingDate, latest)
         IN ScOut("full", FALSE, df, calls + 1, inc, ans_full, inc_start,
                  WriteParquet(df))

\* the full-download block: get_price from the listing date, df.to_parquet
\* into save_path when rows came back
ScriptFull(content, latest, calls, inc, inc_start, ans_full) ==
    IF ans_full = "raises"
    THEN ScOut("full", TRUE, None, calls + 1, inc, "raises", inc_start, content)
    ELSE LET df == ProviderFrame(ans_full, ListingDate, latest)
         IN ScOut("full", FALSE, df, calls + 1, inc, ans_full, inc_start,
                  IF df # <<>> THEN WriteParquet(df) ELSE content)

\* a mutated freshness test: last_cached_date > latest_date
CacheIsFreshStrict(last_cached_date, latest_date) == last_cached_date > latest_date

\* last_cached_date >= latest_date
CacheIsFresh(last_cached_date, latest_date) == last_cached_date >= latest_date

\* a mutated cache block: the exception of read_csv is not caught
CacheBlockUncaught(content, latest, ans_inc, ans_full) ==
    IF ~ CsvReadable(content)
    THEN ScOut("cache", TRUE, None, 0, "not_called", "not_called", 0, content)
    ELSE IF ReadCsv(content) = <<>>
    THEN ScriptFull(content, latest, 0, "not_called", 0, ans_full)
    ELSE LET cached_df == ReadCsv(content)
             last_cached_date == cached_df[Len(cached_df)].date
         IN IF CacheIsFresh(last_cached_date, latest)
            THEN ScOut("none", FALSE, cached_df, 0, "not_called", "not_called", 0, content)
            ELSE IF ans_inc = "raises"
            THEN ScriptFull(content, latest, 1, "raises", last_cached_date, ans_full)
            ELSE LET combined_df ==
                         MergeFrames(cached_df,
                                     ProviderFrame(ans_inc, last_cached_date, latest))
                 IN ScOut("incremental", FALSE, combined_df, 1, ans_inc, "not_called",
                          last_cached_date, WriteCsv(combined_df))

\* the block under save_path.exists(): read_csv, the freshness test, the
\* incremental get_price, merge and to_csv; any exception in it leads to the
\* full download
CacheBlock(content, latest, ans_inc, ans_full) ==
    IF ~ CsvReadable(content) \/ ReadCsv(content) = <<>>
    THEN ScriptFull(content, latest, 0, "not_called", 0, ans_full)
    ELSE LET cached_df == ReadCsv(content)
             last_cached_date == cached_df[Len(cached_df)].date
         IN IF CacheIsFresh(last_cached_date, latest)
            THEN ScOut("none", FALSE, cached_df, 0, "not_called", "not_called", 0, content)
            ELSE IF ans_inc = "raises"
            THEN ScriptFull(content, latest, 1, "raises", last_cached_date, ans_full)
            ELSE LET combined_df ==
                         MergeFrames(cached_df,
                                     ProviderFrame(ans_inc, last_cached_date, latest))
                 IN ScOut("incremental", FALSE, combined_df, 1, ans_inc, "not_called",
                          last_cached_date, WriteCsv(combined_df))

\* download_stock_data_with_cache; up_days: whether the provider answers
\* get_trade_days; ans_inc, ans_full: how the incremental and the full
\* get_price end when they are called
ScriptDownload(content, latest, up_days, ans_inc, ans_full) ==
    IF ~ up_days
    THEN ScOut("none_yet", TRUE, None, 0, "not_called", "not_called", 0, content)
    ELSE IF content.kind # "nofile"
    THEN CacheBlock(content, latest, ans_inc, ans_full)
    ELSE ScriptFull(content, latest, 0, "not_called", 0, ans_full)

\* what save_path may hold for one identifier before the script first runs:
\* nothing, bytes no reader parses, or a delimited-text cache with rows
\* through date d
ScriptCacheStates == {NoFile, Corrupt} \cup {WriteCsv(CachedFrame(d)) : d \in Dates}

\* how all_securities lists an identifier
ListingStates == {"listed", "unlisted", "delisted"}

\* a mutated loop: a failed identifier ends the iteration
NextIndexStopOnFailure(i, n, success) == IF success THEN i + 1 ELSE n + 1

\* download_all_stocks: the for loop moves on whatever the outcome was
NextIndex(i, n, success) == i + 1

\* download_all_stocks: sum(results.values())
SuccessCount(res) == Cardinality({s \in DOMAIN res : res[s]})

\* the identifiers in the order the configured pool first names them
InsertionOrder == <<Code1, Code2>>

\* the orders in which the set all_stocks may be iterated
Orders == {o \in [1..Cardinality(Universe) -> Universe] :
              \A i, j \in DOMAIN o : i # j => o[i] # o[j]}

\* the file a format's writer produces for a frame
WriteFile(fmt, df) == IF fmt = "csv" THEN WriteCsv(df) ELSE WriteParquet(df)

\* what the data directory may hold for one identifier before the program
\* starts: nothing, or rows through date d saved under partition year
CacheStates ==
    {[has |-> FALSE, d |-> 0, year |-> NoYear]}
        \cup [has : {TRUE}, d : Dates, year : YearDirs]

(***************************************************************************)
(* The data validator (utils/data_validator.py).  A series is a frame of    *)
(* rows with a date and the five price fields, or None.                     *)
(***************************************************************************)
\* DataValidator.__init__: min_data_points = 10, max_null_ratio = 0.1
DefaultMinDataPoints == 10
DefaultMaxNullRatio == [num |-> 1, den |-> 10]

\* the columns of a fetched frame: jq_params['fields']
Fields == {"open", "high", "low", "close", "volume"}

\* a null cell (NaN); prices and volumes are numbers from 0 up
NaN == -1

\* a row of a fetched frame
ValRow(d, open, high, low, close, volume) ==
    [date |-> d, open |-> open, high |-> high, low |-> low, close |-> close,
     volume |-> volume]

\* the rows a frame may hold at date d: a sound one, one with a null volume,
\* one of nulls only, one with a price of zero, one whose high is below its low
RowsAt(d) ==
    {ValRow(d, 1, 2, 1, 1, 1), ValRow(d, 1, 2, 1, 1, NaN),
     ValRow(d, NaN, NaN, NaN, NaN, NaN), ValRow(d, 0, 2, 0, 1, 1),
     ValRow(d, 1, 1, 2, 1, 1)}

\* a series handed to the validator: None, or a frame of at most MaxRows
\* rows in date order
NoSeries == [kind |-> "none", rows |-> <<>>]
ValSeries ==
    {NoSeries} \cup
    {[kind |-> "frame", rows |-> r] :
        r \in UNION {{q \in [1..n -> UNION {RowsAt(d) : d \in Dates}] :
                         \A i \in 1..n : \A j \in 1..n : i < j => q[i].date < q[j].date} :
                     n \in 0..MaxRows}}

\* _check_null_values: data.isnull().sum().sum() and shape[0] * shape[1]
NullCount(rows) ==
    Cardinality({c \in (1..Len(rows)) \X Fields : rows[c[1]][c[2]] = NaN})
TotalCells(rows) == Len(rows) * Cardinality(Fields)

\* a mutated null test: null_ratio >= self.max_null_ratio
NullRatioTooHighInclusive(rows, ratio) ==
    TotalCells(rows) > 0 /\ NullCount(rows) * ratio.den >= ratio.num * TotalCells(rows)

\* null_ratio > self.max_null_ratio, with null_ratio = null_count / total_cells
NullRatioTooHigh(rows, ratio) ==
    TotalCells(rows) > 0 /\ NullCount(rows) * ratio.den > ratio.num * TotalCells(rows)

\* _check_data_completeness below the 0.8 threshold: the mean over the five
\* key fields of the share of non-null cells
LowCompleteness(rows) ==
    10 * (TotalCells(rows) - NullCount(rows)) < 8 * TotalCells(rows)

\* _check_price_validity: a row with open or close at or below zero, or a
\* row whose high is below its low, open or close (a comparison with NaN is
\* false)
Below(a, b) == a # NaN /\ b # NaN /\ a < b
PriceIssues(rows) ==
    (IF \E i \in 1..Len(rows) :
           \/ (rows[i].open # NaN /\ rows[i].open <= 0)
           \/ (rows[i].close # NaN /\ rows[i].close <= 0)
     THEN {"negative_prices"} ELSE {})
    \cup
    (IF \E i \in 1..Len(rows) :
           \/ Below(rows[i].high, rows[i].low)
           \/ Below(rows[i].high, rows[i].open)
           \/ Below(rows[i].high, rows[i].close)
     THEN {"invalid_high_low"} ELSE {})

\* _check_date_continuity: consecutive index entries more than a day apart
DateGaps(rows) ==
    IF Len(rows) >= 2 /\ \E i \in 2..Len(rows) : rows[i].date - rows[i-1].date > 1
    THEN {"date_gap"} ELSE {}

\* the dict validate_stock_data returns, by its keys; is_valid and the lists
\* are read only under their keys
ValResult(keys, is_valid, errors, warnings, checks) ==
    [keys |-> keys, is_valid |-> is_valid, errors |-> errors,
     warnings |-> warnings, checks |-> checks]

\* validate_stock_data: (False, {"error": ...}) for None or an empty frame;
\* else the errors of the two hard checks, the warnings of the three soft
\* ones, and is_valid = no errors
ValidateStockData(min_data_points, ratio, data) ==
    IF data.kind = "none" \/ data.rows = <<>>
    THEN ValResult({"error"}, FALSE, {}, {}, {})
    ELSE LET rows == data.rows
             errors == (IF Len(rows) < min_data_points THEN {"data_points"} ELSE {})
                         \cup (IF NullRatioTooHigh(rows, ratio) THEN {"null_ratio"} ELSE {})
             warnings == (IF LowCompleteness(rows) THEN {"completeness"} ELSE {})
                           \cup PriceIssues(rows) \cup DateGaps(rows)
             checks == (IF Len(rows) < min_data_points THEN {} ELSE {"data_points"})
                         \cup (IF NullRatioTooHigh(rows, ratio) THEN {} ELSE {"null_values"})
                         \cup (IF LowCompleteness(rows) THEN {} ELSE {"completeness"})
                         \cup (IF PriceIssues(rows) = {} THEN {"price_validity"} ELSE {})
                         \cup (IF DateGaps(rows) = {} THEN {"date_continuity"} ELSE {})
         IN ValResult({"stock_code", "data_points", "date_range", "checks", "warnings",
                       "errors", "null_ratio", "data_completeness", "is_valid"},
                      errors = {}, errors, warnings, checks)

\* the series the second identifier of a batch may have
SecondSeries ==
    {NoSeries, [kind |-> "frame", rows |-> <<>>],
     [kind |-> "frame", rows |-> <<ValRow(1, 1, 2, 1, 1, 1)>>]}

\* the data_dict arguments of the model: no, one or two identifiers
BatchInputs ==
    {<<>>}
        \cup {[s \in {Code1} |-> a] : a \in ValSeries}
        \cup {[s \in {Code2} |-> b] : b \in SecondSeries}
        \cup {[s \in Universe |-> IF s = Code1 THEN ab[1] ELSE ab[2]] :
                 ab \in ValSeries \X SecondSeries}

\* the values min_data_points and max_null_ratio may be configured to
MinDataPointsValues == {1, MaxRows, DefaultMinDataPoints}
MaxNullRatioValues == {DefaultMaxNullRatio, [num |-> 1, den |-> 2]}

\* the keys of data_dict in the order items() yields them
ItemsOrder(data_dict) == SelectSeq(InsertionOrder, LAMBDA s : s \in DOMAIN data_dict)

(***************************************************************************)
(* Variables.                                                               *)
(***************************************************************************)
VARIABLES
    mg_pc,      \* merge harness: "ready" | "done"
    mg_old,     \* the cached frame handed to the merge
    mg_new,     \* the newly fetched frame handed to the merge
    mg_out,     \* the merged frame (None before the merge ran)
    sm_format,  \* StorageManager.format
    files,      \* the disk: what each path holds
    dirs,       \* the partition directories that exist under base_path
    st_data,    \* storage harness: the frame handed to save_data
    st_op,      \* storage harness: the last call and its outcome
    st_saved,   \* history: per path, the frame last saved there and intact
    f_retry,    \* JQFetcher.max_retry
    f_delay,    \* JQFetcher.retry_delay
    f_pc,       \* get_stock_data: "idle" | "attempt" | "returned" | "raised"
    f_attempt,  \* get_stock_data: the loop variable attempt
    f_log,      \* history: provider calls, failed imports and sleeps, in order
    f_clock,    \* seconds spent in time.sleep
    f_ret,      \* get_stock_data's return value
    c_end,      \* config['jq_params']['end_date']
    c_by_year,  \* config['storage']['by_listing_year']
    meta,       \* CacheManager: the cache metadata, per identifier
    jq_up,      \* whether the provider would answer a get_price call
    run_pc,     \* download_all_stocks: "idle" | "running" | "done"
    run_force,  \* download_all_stocks: force_full
    run_order,  \* the iteration order of the set all_stocks
    run_i,      \* download_all_stocks: position in the iteration
    results,    \* download_all_stocks: the results dict
    run_count,  \* download_all_stocks: success_count (-1 before it is set)
    dl,         \* history: the last download_single_stock call and its outcome
    gs,         \* history: the last get_stock_data call and what it returned
    sc_pc,      \* script: "idle" | "running" | "done"
    sc_order,   \* script: the order of the list pool_stocks
    sc_i,       \* script: position in the main loop
    sc_files,   \* script: what save_path holds, per identifier
    sc_latest,  \* script: what get_latest_trading_date answers in this run
    sc_listed,  \* script: how all_securities lists each identifier
    sc_last,    \* history: the last main-loop iteration and its outcome
    nz_pc,      \* conversion harness: "ready" | "once" | "twice"
    nz_raw,     \* the string handed to convert_to_jq_code
    nz_out,     \* its outcome
    nz_out2,    \* the outcome of converting the returned string again
    cfg_globals,  \* the dicts of module config, by _merge_configs key
    cfg_self,   \* self.config of the StockCache built last
    cfg_all,    \* self.all_stocks of the StockCache built last
    cfg_custom, \* the custom_config of the StockCache built last
    cfg_builds, \* the number of StockCache objects built so far
    uc_pc,      \* update_cache: "idle" | "loop" | "all" | "done"
    uc_cats,    \* update_cache: the argument categories
    uc_todo,    \* update_cache: the members of target_stocks not yet visited
    uc_results, \* update_cache: the results dict
    vb_pc,      \* validate_batch_data: "ready" | "loop" | "returned" | "raised"
    vb_min,     \* DataValidator.min_data_points
    vb_ratio,   \* DataValidator.max_null_ratio, as a fraction
    vb_input,   \* validate_batch_data: the argument data_dict
    vb_i,       \* validate_batch_data: position in data_dict.items()
    vb_results  \* validate_batch_data: the results dict

mergeVars == <<mg_pc, mg_old, mg_new, mg_out>>
diskVars == <<sm_format, files, dirs>>
storeVars == <<st_data, st_op, st_saved>>
fetchVars == <<f_retry, f_delay, f_pc, f_attempt, f_log, f_clock, f_ret>>
cacheVars == <<c_end, c_by_year, meta, jq_up, run_pc, run_force, run_order,
               run_i, results, run_count, dl, gs>>

scriptVars == <<sc_pc, sc_order, sc_i, sc_files, sc_latest, sc_listed, sc_last>>

codeVars == <<nz_pc, nz_raw, nz_out, nz_out2>>

configVars == <<cfg_globals, cfg_self, cfg_all, cfg_custom, cfg_builds>>

updateVars == <<uc_pc, uc_cats, uc_todo, uc_results>>

validVars == <<vb_pc, vb_min, vb_ratio, vb_input, vb_i, vb_results>>

vars == <<mergeVars, diskVars, storeVars, fetchVars, cacheVars, scriptVars, codeVars,
          configVars, updateVars, validVars>>

(***************************************************************************)
(* Idle values of each component's variables.                               *)
(***************************************************************************)
\* an empty data directory: base_path exists, nothing under it
EmptyDisk ==
    /\ files = [p \in Paths |-> NoFile]
    /\ dirs = {}

IdleDisk ==
    /\ sm_format = "parquet"
    /\ EmptyDisk

NoOp == [op |-> "none", year |-> NoYear, status |-> "none", df |-> None,
         path |-> GetFilePath("parquet", Code1, NoYear)]

IdleStore ==
    /\ st_data = None
    /\ st_op = NoOp
    /\ st_saved = [p \in Paths |-> None]

IdleFetch ==
    /\ f_retry = CfgMaxRetry
    /\ f_delay = CfgRetryDelay
    /\ f_pc = "off"
    /\ f_attempt = 0
    /\ f_log = <<>>
    /\ f_clock = 0
    /\ f_ret = None

NoDl == [stock |-> Code1, ret |-> FALSE, mode |-> "none_yet", fetch |-> "not_called",
         fetched |-> None, data |-> None, cached |-> FALSE, cached_end |-> 0,
         inc_start |-> 0]

NoGs == [stock |-> Code1, called |-> FALSE, downloaded |-> FALSE, df |-> None]

IdleCache ==
    /\ c_end = MaxDate
    /\ c_by_year = TRUE
    /\ meta = [s \in Universe |-> NoMeta]
    /\ jq_up = TRUE
    /\ run_pc = "off"
    /\ run_force = FALSE
    /\ run_order = <<>>
    /\ run_i = 0
    /\ results = <<>>
    /\ run_count = -1
    /\ dl = NoDl
    /\ gs = NoGs

NoScLast == [stock |-> Code1, branch |-> "none_yet", raised |-> FALSE, df |-> None,
             calls |-> 0, inc |-> "not_called", full |-> "not_called",
             inc_start |-> 0, before |-> NoFile]

IdleScript ==
    /\ sc_pc = "off"
    /\ sc_order = <<>>
    /\ sc_i = 0
    /\ sc_files = [s \in Universe |-> NoFile]
    /\ sc_latest = 0
    /\ sc_listed = [s \in Universe |-> "listed"]
    /\ sc_last = NoScLast

NotConverted == [status |-> "none", code |-> <<>>]

IdleCode ==
    /\ nz_pc = "off"
    /\ nz_raw = <<>>
    /\ nz_out = NotConverted
    /\ nz_out2 = NotConverted

\* custom_config = None
NoCustom == [given |-> FALSE, dict |-> <<>>]

IdleConfig ==
    /\ cfg_globals = ConfigDefaults
    /\ cfg_self = ConfigDefaults
    /\ cfg_all = {}
    /\ cfg_custom = NoCustom
    /\ cfg_builds = 0

\* categories = None
NoCategories == [given |-> FALSE, list |-> <<>>]

IdleUpdate ==
    /\ uc_pc = "off"
    /\ uc_cats = NoCategories
    /\ uc_todo = {}
    /\ uc_results = <<>>

IdleValid ==
    /\ vb_pc = "off"
    /\ vb_min = DefaultMinDataPoints
    /\ vb_ratio = DefaultMaxNullRatio
    /\ vb_input = <<>>
    /\ vb_i = 0
    /\ vb_results = <<>>

(***************************************************************************)
(* The merge on its own: inputs drawn from the bounded frames.              *)
(***************************************************************************)
InitMerge ==
    /\ mg_pc = "ready"
    /\ mg_old \in SortedFrames
    /\ mg_new \in SortedFrames
    /\ mg_out = None

IdleMerge ==
    /\ mg_pc = "idle"
    /\ mg_old = <<>>
    /\ mg_new = <<>>
    /\ mg_out = None

DoMerge ==
    /\ mg_pc = "ready"
    /\ mg_out' = MergeFrames(mg_old, mg_new)
    /\ mg_pc' = "done"
    /\ UNCHANGED <<mg_old, mg_new, diskVars, storeVars, fetchVars, cacheVars, scriptVars, codeVars, configVars, updateVars, validVars>>

NextMerge == DoMerge

InitSpecMerge == InitMerge /\ IdleDisk /\ IdleStore /\ IdleFetch /\ IdleCache /\ IdleScript /\ IdleCode /\ IdleConfig /\ IdleUpdate /\ IdleValid

SpecMerge == InitSpecMerge /\ [][NextMerge]_vars

\* C1: every merge of a cached frame with a newly fetched frame yields
\* strictly increasing (hence unique) dates, holds every date of either
\* input, and for a date present in both carries the new frame's row.
C1_MergeSortedUniqueNewWins ==
    mg_pc = "done" =>
        /\ StrictlyIncreasing(mg_out)
        /\ DateSet(mg_out) = DateSet(mg_old) \cup DateSet(mg_new)
        /\ \A i \in 1..Len(mg_out) :
              IF mg_out[i].date \in DateSet(mg_new)
              THEN \E j \in 1..Len(mg_new) : mg_new[j] = mg_out[i]
              ELSE \E j \in 1..Len(mg_old) : mg_old[j] = mg_out[i]

\* a merge ran on two frames that share a date with different values
C1_Witness ==
    /\ mg_pc = "done"
    /\ \E i \in 1..Len(mg_old), j \in 1..Len(mg_new) :
          /\ mg_old[i].date = mg_new[j].date
          /\ mg_old[i].val # mg_new[j].val
    /\ Len(mg_out) >= 2

(***************************************************************************)
(* The storage manager on its own: one frame, drawn at the start, saved,   *)
(* loaded and deleted under either partition argument.                      *)
(***************************************************************************)
\* the partition arguments the harness passes
StoreYears == {NoYear, ListedYear}

InitStorage ==
    /\ sm_format \in {"parquet", "csv"}
    /\ EmptyDisk
    /\ st_data \in SortedFrames \cup {None}
    /\ st_op = NoOp
    /\ st_saved = [p \in Paths |-> None]

StOp(op, year_dir, out) ==
    [op |-> op, year |-> year_dir, status |-> out.status, df |-> out.df,
     path |-> out.path]

\* storage_mgr.save_data(st_data, Code1, y)
StSave(y) ==
    LET out == SaveData(sm_format, files, dirs, st_data, Code1, y)
    IN /\ files' = out.files
       /\ dirs' = out.dirs
       /\ st_op' = StOp("save", y, out)
       /\ st_saved' = IF out.status = "ok"
                      THEN [st_saved EXCEPT ![out.path] = st_data]
                      ELSE st_saved
       /\ UNCHANGED <<sm_format, st_data, mergeVars, fetchVars, cacheVars, scriptVars, codeVars, configVars, updateVars, validVars>>

\* storage_mgr.load_data(Code1, y)
StLoad(y) ==
    LET out == LoadData(sm_format, files, dirs, Code1, y)
    IN /\ files' = out.files
       /\ dirs' = out.dirs
       /\ st_op' = StOp("load", y, out)
       /\ UNCHANGED <<sm_format, st_data, st_saved, mergeVars, fetchVars, cacheVars, scriptVars, codeVars, configVars, updateVars, validVars>>

\* storage_mgr.delete_data(Code1, y)
StDelete(y) ==
    LET out == DeleteData(sm_format, files, dirs, Code1, y)
    IN /\ files' = out.files
       /\ dirs' = out.dirs
       /\ st_op' = StOp("delete", y, out)
       /\ st_saved' = [st_saved EXCEPT ![out.path] = None]
       /\ UNCHANGED <<sm_format, st_data, mergeVars, fetchVars, cacheVars, scriptVars, codeVars, configVars, updateVars, validVars>>

\* the environment damages a stored file (a write cut short by a kill, a
\* foreign file under the same name)
StCorrupt(y) ==
    LET p == GetFilePath(sm_format, Code1, y)
    IN /\ files[p].kind \notin {"nofile", "corrupt"}
       /\ files' = [files EXCEPT ![p] = Corrupt]
       /\ st_op' = [NoOp EXCEPT !.op = "corrupt", !.year = y, !.path = p]
       /\ st_saved' = [st_saved EXCEPT ![p] = None]
       /\ UNCHANGED <<sm_format, dirs, st_data, mergeVars, fetchVars, cacheVars, scriptVars, codeVars, configVars, updateVars, validVars>>

\* storage_mgr.file_exists(Code1, y)
StExists(y) ==
    LET out == FileExists(sm_format, files, dirs, Code1, y)
    IN /\ files' = out.files
       /\ dirs' = out.dirs
       /\ st_op' = StOp("exists", y, out)
       /\ UNCHANGED <<sm_format, st_data, st_saved, mergeVars, fetchVars, cacheVars, scriptVars, codeVars, configVars, updateVars, validVars>>

\* storage_mgr.get_file_size(Code1, y)
StSize(y) ==
    LET out == GetFileSize(sm_format, files, dirs, Code1, y)
    IN /\ files' = out.files
       /\ dirs' = out.dirs
       /\ st_op' = StOp("size", y, out)
       /\ UNCHANGED <<sm_format, st_data, st_saved, mergeVars, fetchVars, cacheVars, scriptVars, codeVars, configVars, updateVars, validVars>>

\* storage_mgr.list_files(y)
StList(y) ==
    LET out == ListFiles(sm_format, files, dirs, y)
    IN /\ files' = out.files
       /\ dirs' = out.dirs
       /\ st_op' = StOp("list", y, out)
       /\ UNCHANGED <<sm_format, st_data, st_saved, mergeVars, fetchVars, cacheVars, scriptVars, codeVars, configVars, updateVars, validVars>>

\* storage_mgr.convert_format(Code1, new_format, y)
StConvert(y, new_format) ==
    LET out == ConvertFormat(sm_format, files, dirs, Code1, new_format, y)
    IN /\ sm_format' = out.format
       /\ files' = out.files
       /\ dirs' = out.dirs
       /\ st_op' = [op |-> "convert", year |-> y, status |-> out.ret, df |-> None,
                    path |-> out.path]
       /\ st_saved' = IF out.ret = "True"
                      THEN [st_saved EXCEPT ![out.path] = FrameOfFile(out.files[out.path])]
                      ELSE st_saved
       /\ UNCHANGED <<st_data, mergeVars, fetchVars, cacheVars, scriptVars, codeVars, configVars, updateVars, validVars>>

NextStorage ==
    \E y \in StoreYears :
        \/ StSave(y)
        \/ StLoad(y)
        \/ StDelete(y)
        \/ StCorrupt(y)
        \/ StExists(y)
        \/ StSize(y)
        \/ StList(y)

InitSpecStorage == InitStorage /\ IdleMerge /\ IdleFetch /\ IdleCache /\ IdleScript /\ IdleCode /\ IdleConfig /\ IdleUpdate /\ IdleValid

SpecStorage == InitSpecStorage /\ [][NextStorage]_vars

\* the storage manager with format conversion: files are saved, damaged,
\* deleted and converted to either supported format or to an unsupported one
NextConvert ==
    \E y \in StoreYears :
        \/ StSave(y)
        \/ StDelete(y)
        \/ StCorrupt(y)
        \/ \E new_format \in Formats : StConvert(y, new_format)

InitSpecConvert == InitStorage /\ IdleMerge /\ IdleFetch /\ IdleCache /\ IdleScript /\ IdleCode /\ IdleConfig /\ IdleUpdate /\ IdleValid

SpecConvert == InitSpecConvert /\ [][NextConvert]_vars

C9_EmptySaveNoEffect ==
    [][(st_op'.op = "save" /\ (st_data = None \/ st_data = <<>>)) =>
          /\ st_op'.status = "ValueError_empty"
          /\ files' = files
          /\ dirs' = dirs]_vars

\* an empty save into a partition that does not exist was refused
C9_Witness ==
    /\ st_op.op = "save"
    /\ st_data = <<>>
    /\ st_op.status = "ValueError_empty"
    /\ st_op.year = ListedYear
    /\ ListedYear \notin dirs

\* C10: load_data returns None without raising when the file is missing and
\* when the file is there but cannot be parsed.
C10_LoadAbsentNeverRaises ==
    (st_op.op = "load" /\ files[st_op.path].kind \in {"nofile", "corrupt"}) =>
        /\ st_op.status = "returned"
        /\ st_op.df = None

\* a load met a file that cannot be parsed
C10_Witness ==
    /\ st_op.op = "load"
    /\ files[st_op.path].kind = "corrupt"
    /\ st_op.status = "returned"
    /\ st_op.df = None

(***************************************************************************)
(* JQFetcher.get_stock_data on its own: one call, the provider free to     *)
(* fail or to answer at every attempt.                                      *)
(***************************************************************************)
InitFetcher ==
    /\ f_retry \in 0..MaxRetry
    /\ f_delay \in 1..MaxDelay
    /\ f_pc = "idle"
    /\ f_attempt = 0
    /\ f_log = <<>>
    /\ f_clock = 0
    /\ f_ret = None

\* get_stock_data is entered: for attempt in range(self.max_retry)
FetchCall ==
    /\ f_pc = "idle"
    /\ IF f_retry > 0
       THEN f_pc' = "attempt" /\ f_ret' = f_ret
       ELSE f_pc' = "returned" /\ f_ret' = None
    /\ UNCHANGED <<f_retry, f_delay, f_attempt, f_log, f_clock,
                   mergeVars, diskVars, storeVars, cacheVars, scriptVars, codeVars, configVars, updateVars, validVars>>

\* get_price answers with a frame: return data
AttemptReturns(df) ==
    /\ f_pc = "attempt"
    /\ f_log' = Append(f_log, Ev("call_ok", df))
    /\ f_ret' = df
    /\ f_pc' = "returned"
    /\ UNCHANGED <<f_retry, f_delay, f_attempt, f_clock,
                   mergeVars, diskVars, storeVars, cacheVars, scriptVars, codeVars, configVars, updateVars, validVars>>

\* the except branch of one attempt, after the event ev failed it
AttemptFailed(ev) ==
    /\ f_pc = "attempt"
    /\ IF ShouldRetry(f_attempt, f_retry)
       THEN /\ f_log' = f_log \o <<Ev(ev, None), Ev("sleep", None)>>
            /\ f_clock' = f_clock + f_delay
            /\ f_attempt' = f_attempt + 1
            /\ IF f_attempt + 1 < f_retry
               THEN f_pc' = "attempt" /\ f_ret' = f_ret
               ELSE f_pc' = "returned" /\ f_ret' = None
       ELSE /\ f_log' = Append(f_log, Ev(ev, None))
            /\ f_pc' = "raised"
            /\ UNCHANGED <<f_attempt, f_clock, f_ret>>
    /\ UNCHANGED <<f_retry, f_delay, mergeVars, diskVars, storeVars, cacheVars, scriptVars, codeVars, configVars, updateVars, validVars>>

\* get_price raises
AttemptRaises == AttemptFailed("call_fail")

\* from jqdata import get_price raises: the provider is not reached
AttemptImportFails == AttemptFailed("import_fail")

NextFetcher ==
    \/ FetchCall
    \/ \E df \in SortedFrames : AttemptReturns(df)
    \/ AttemptRaises
    \/ AttemptImportFails

InitSpecFetcher == InitFetcher /\ IdleMerge /\ IdleDisk /\ IdleStore /\ IdleCache /\ IdleScript /\ IdleCode /\ IdleConfig /\ IdleUpdate /\ IdleValid

SpecFetcher == InitSpecFetcher /\ [][NextFetcher]_vars

ProviderCalls == CountEv(f_log, {"call_ok", "call_fail"})
FailedAttempts == CountEv(f_log, {"call_fail", "import_fail"})
Sleeps == CountEv(f_log, {"sleep"})

\* C5: with max_retry = N >= 1, one get_stock_data call reaches the provider
\* at most N times, returns the first successful attempt's frame and stops,
\* sleeps retry_delay only between two consecutive attempts (never after the
\* last), and raises exactly when all N attempts failed.
C5_RetryBounded ==
    f_retry >= 1 =>
        /\ ProviderCalls <= f_retry
        /\ f_clock = Sleeps * f_delay
        /\ \A i \in 1..Len(f_log) :
              /\ f_log[i].ev = "call_ok" => i = Len(f_log)
              /\ f_log[i].ev = "sleep" =>
                    /\ i > 1 /\ f_log[i - 1].ev \in {"call_fail", "import_fail"}
                    /\ (f_pc \in {"returned", "raised"} => i < Len(f_log))
                    /\ (i < Len(f_log) => f_log[i + 1].ev # "sleep")
        /\ f_pc = "returned" =>
              /\ f_log[Len(f_log)].ev = "call_ok"
              /\ f_ret = f_log[Len(f_log)].df
              /\ Sleeps = FailedAttempts
        /\ f_pc = "raised" =>
              /\ FailedAttempts = f_retry
              /\ Sleeps = f_retry - 1
        /\ FailedAttempts >= f_retry => f_pc = "raised"

\* the call gave up after three failed attempts and two sleeps
C5_WitnessRaised ==
    /\ f_retry = 3
    /\ f_pc = "raised"
    /\ ProviderCalls = 3
    /\ Sleeps = 2

(***************************************************************************)
(* StockCache: download_all_stocks over a data directory that may already  *)
(* hold cached series.                                                      *)
(***************************************************************************)
InitCache ==
    /\ sm_format = "parquet"
    /\ c_end \in Dates
    /\ c_by_year \in BOOLEAN
    /\ jq_up \in BOOLEAN
    /\ \E cs \in [Universe -> CacheStates] :
          /\ files = [p \in Paths |->
                        IF \E s \in Universe :
                              cs[s].has /\ p = GetFilePath("parquet", s, cs[s].year)
                        THEN LET s == CHOOSE s \in Universe :
                                    cs[s].has /\ p = GetFilePath("parquet", s, cs[s].year)
                             IN WriteFile("parquet", CachedFrame(cs[s].d))
                        ELSE NoFile]
          /\ dirs = {cs[s].year : s \in {t \in Universe : cs[t].has}} \ {NoYear}
          /\ meta = [s \in Universe |->
                        IF cs[s].has
                        THEN MetaEntry(GetFilePath("parquet", s, cs[s].year),
                                       CfgStartDate, cs[s].d, cs[s].d)
                        ELSE NoMeta]
    /\ run_pc = "idle"
    /\ run_force = FALSE
    /\ run_order \in Orders
    /\ run_i = 0
    /\ results = <<>>
    /\ run_count = -1
    /\ dl = NoDl
    /\ gs = NoGs

\* download_all_stocks(force_full) is entered: results = {}
RunStart(force_full) ==
    /\ run_pc \in {"idle", "done"}
    /\ run_pc' = "running"
    /\ run_force' = force_full
    /\ run_i' = 1
    /\ results' = <<>>
    /\ run_count' = -1
    /\ dl' = NoDl
    /\ gs' = NoGs
    /\ UNCHANGED <<c_end, c_by_year, meta, jq_up, run_order,
                   mergeVars, diskVars, storeVars, fetchVars, scriptVars, codeVars, configVars, updateVars, validVars>>

\* one iteration of the for loop: download_single_stock and the results entry
RunStep ==
    /\ run_pc = "running"
    /\ run_i <= Len(run_order)
    /\ LET stock == run_order[run_i]
       IN \E inc_start \in IncrementalStarts(meta, stock),
             year \in {ListedYear, DefaultYear} :
            LET out == DownloadSingleStock(sm_format, c_by_year, files, dirs, meta,
                                           jq_up, stock, run_force, CfgStartDate,
                                           c_end, inc_start, year)
            IN /\ files' = out.files
               /\ dirs' = out.dirs
               /\ meta' = out.meta
               /\ results' = [s \in DOMAIN results \cup {stock} |->
                                 IF s = stock THEN out.ret ELSE results[s]]
               /\ run_i' = NextIndex(run_i, Len(run_order), out.ret)
               /\ dl' = [stock |-> stock, ret |-> out.ret, mode |-> out.mode,
                         fetch |-> out.fetch, fetched |-> out.fetched,
                         data |-> out.data,
                         cached |-> CheckCacheExists(meta, files, stock),
                         cached_end |-> meta[stock].end,
                         inc_start |-> IF out.mode = "incremental"
                                       THEN inc_start ELSE 0]
    /\ UNCHANGED <<c_end, c_by_year, jq_up, run_pc, run_force, run_order, run_count,
                   gs, sm_format, mergeVars, storeVars, fetchVars, scriptVars, codeVars, configVars, updateVars, validVars>>

\* the loop is over: success_count = sum(results.values()); return results
RunFinish ==
    /\ run_pc = "running"
    /\ run_i > Len(run_order)
    /\ run_count' = SuccessCount(results)
    /\ run_pc' = "done"
    /\ UNCHANGED <<c_end, c_by_year, meta, jq_up, run_force, run_order, run_i,
                   results, dl, gs, mergeVars, diskVars, storeVars, fetchVars,
                   scriptVars, codeVars, configVars, updateVars, validVars>>

\* get_stock_data(stock_code), called between runs: the cache when
\* check_cache_exists, else download_single_stock and then the cache
GetStockData(stock_code) ==
    /\ run_pc \in {"idle", "done"}
    /\ IF CheckCacheExists(meta, files, stock_code)
       THEN /\ gs' = [stock |-> stock_code, called |-> TRUE, downloaded |-> FALSE,
                      df |-> LoadCachedData(sm_format, files, dirs, meta, stock_code)]
            /\ UNCHANGED <<files, dirs, meta>>
       ELSE \E year \in {ListedYear, DefaultYear} :
              LET out == DownloadSingleStock(sm_format, c_by_year, files, dirs, meta,
                                             jq_up, stock_code, FALSE, CfgStartDate,
                                             c_end, meta[stock_code].end, year)
              IN /\ files' = out.files
                 /\ dirs' = out.dirs
                 /\ meta' = out.meta
                 /\ gs' = [stock |-> stock_code, called |-> TRUE, downloaded |-> TRUE,
                           df |-> IF out.ret
                                  THEN LoadCachedData(sm_format, out.files, out.dirs,
                                                      out.meta, stock_code)
                                  ELSE None]
    /\ UNCHANGED <<c_end, c_by_year, jq_up, run_pc, run_force, run_order, run_i,
                   results, run_count, dl, sm_format, mergeVars, storeVars, fetchVars,
                   scriptVars, codeVars, configVars, updateVars, validVars>>

NextCache ==
    \/ \E force_full \in BOOLEAN : RunStart(force_full)
    \/ RunStep
    \/ RunFinish
    \/ \E stock_code \in Universe : GetStockData(stock_code)

InitSpecCache == InitCache /\ IdleMerge /\ IdleStore /\ IdleFetch /\ IdleScript /\ IdleCode /\ IdleConfig /\ IdleUpdate /\ IdleValid

SpecCache == InitSpecCache /\ [][NextCache]_vars

\* a step of the for loop: download_single_stock ran for run_order[run_i]
IsDownloadStep == run_pc = "running" /\ run_i' # run_i

\* the frame the file of an identifier holds under some partition
StoredFrames(fs, stock_code) ==
    {ReadParquet(fs[p]) : p \in {q \in Paths : /\ q.name = ReplaceDots(stock_code)
                                                /\ fs[q].kind = "parquet"}}

(***************************************************************************)
(* The download script: each run of save_stocks_data.py walks pool_stocks   *)
(* once; runs follow one another on the same files, on the same or a later  *)
(* trading day.                                                             *)
(***************************************************************************)
InitScript ==
    /\ sc_pc = "idle"
    /\ sc_order \in Orders
    /\ sc_i = 0
    /\ sc_files \in [Universe -> ScriptCacheStates]
    /\ sc_latest = 0
    /\ sc_listed \in [Universe -> ListingStates]
    /\ sc_last = NoScLast

\* the script is started: get_latest_trading_date answers latest in this run
ScriptStart(latest) ==
    /\ sc_pc \in {"idle", "done"}
    /\ latest >= sc_latest
    /\ sc_latest' = latest
    /\ sc_pc' = "running"
    /\ sc_i' = 1
    /\ sc_last' = NoScLast
    /\ UNCHANGED <<sc_order, sc_files, sc_listed,
                   mergeVars, diskVars, storeVars, fetchVars, cacheVars, codeVars, configVars, updateVars, validVars>>

\* one iteration of the main loop: the two skips, then
\* download_stock_data_with_cache inside the loop's try
ScriptStep ==
    /\ sc_pc = "running"
    /\ sc_i <= Len(sc_order)
    /\ LET stock == sc_order[sc_i]
       IN IF sc_listed[stock] # "listed"
          THEN /\ sc_last' = [NoScLast EXCEPT !.stock = stock, !.branch = "skipped",
                                               !.before = sc_files[stock]]
               /\ sc_files' = sc_files
          ELSE \E up_days \in BOOLEAN, ans_inc \in Answers, ans_full \in Answers :
                 LET out == ScriptDownload(sc_files[stock], sc_latest,
                                           up_days, ans_inc, ans_full)
                 IN /\ sc_files' = [sc_files EXCEPT ![stock] = out.content]
                    /\ sc_last' = [stock |-> stock, branch |-> out.branch,
                                   raised |-> out.raised, df |-> out.df,
                                   calls |-> out.calls, inc |-> out.inc,
                                   full |-> out.full, inc_start |-> out.inc_start,
                                   before |-> sc_files[stock]]
    /\ sc_i' = sc_i + 1
    /\ UNCHANGED <<sc_pc, sc_order, sc_latest, sc_listed,
                   mergeVars, diskVars, storeVars, fetchVars, cacheVars, codeVars, configVars, updateVars, validVars>>

\* the loop is over and the script ends
ScriptFinish ==
    /\ sc_pc = "running"
    /\ sc_i > Len(sc_order)
    /\ sc_pc' = "done"
    /\ UNCHANGED <<sc_order, sc_i, sc_files, sc_latest, sc_listed, sc_last,
                   mergeVars, diskVars, storeVars, fetchVars, cacheVars, codeVars, configVars, updateVars, validVars>>

NextScript ==
    \/ \E latest \in Dates : ScriptStart(latest)
    \/ ScriptStep
    \/ ScriptFinish

InitSpecScript == InitScript /\ IdleMerge /\ IdleDisk /\ IdleStore /\ IdleFetch /\ IdleCache /\ IdleCode /\ IdleConfig /\ IdleUpdate /\ IdleValid

SpecScript == InitSpecScript /\ [][NextScript]_vars

\* whether this step is one iteration of the script's main loop
IsScriptStep == sc_pc = "running" /\ sc_i' # sc_i

(***************************************************************************)
(* Both download paths, each on its own files: StockCache and the script.   *)
(***************************************************************************)
InitSpecDownload == InitSpecCache \/ InitSpecScript

NextDownload ==
    \/ \E force_full \in BOOLEAN : RunStart(force_full)
    \/ RunStep
    \/ RunFinish
    \/ \E stock_code \in Universe : GetStockData(stock_code)
    \/ \E latest \in Dates : ScriptStart(latest)
    \/ ScriptStep
    \/ ScriptFinish

SpecDownload == InitSpecDownload /\ [][NextDownload]_vars

\* C2: when a cache exists for an identifier, its covered end-date is at or
\* past the requested end-date and a full download is not forced, processing
\* the identifier requests no fetch, writes nothing and reports success with
\* the cached frame, in StockCache and in the download script alike.
C2_FreshCacheNoFetch ==
    /\ [][LET stock == run_order[run_i]
          IN (/\ IsDownloadStep
              /\ ~ run_force
              /\ meta[stock].exists
              /\ files[meta[stock].path].kind # "nofile"
              /\ meta[stock].end >= c_end)
             => /\ dl'.mode = "none"
                /\ dl'.fetch = "not_called"
                /\ files' = files
                /\ dirs' = dirs
                /\ meta' = meta
                /\ results'[stock] = TRUE]_vars
    /\ [][LET stock == sc_order[sc_i]
          IN (/\ IsScriptStep
              /\ sc_listed[stock] = "listed"
              /\ sc_last'.branch # "none_yet"
              /\ CsvReadable(sc_files[stock])
              /\ ReadCsv(sc_files[stock]) # <<>>
              /\ ReadCsv(sc_files[stock])[Len(ReadCsv(sc_files[stock]))].date >= sc_latest)
             => /\ sc_last'.branch = "none"
                /\ sc_last'.calls = 0
                /\ ~ sc_last'.raised
                /\ sc_files' = sc_files
                /\ sc_last'.df = ReadCsv(sc_files[stock])]_vars

\* an identifier whose cache covers the requested end-date was processed by
\* the script, which returned the cached frame
C2_Witness ==
    /\ sc_pc = "running"
    /\ sc_last.branch = "none"
    /\ sc_last.calls = 0
    /\ sc_last.before.kind = "csv"
    /\ sc_files[sc_last.stock] = sc_last.before
    /\ sc_last.df = ReadCsv(sc_last.before)
    /\ Len(sc_last.df) >= 2

\* an identifier whose cache covers the requested end-date was processed by
\* StockCache
C2_WitnessCache ==
    /\ run_pc = "running"
    /\ ~ run_force
    /\ dl.mode = "none"
    /\ dl.cached
    /\ dl.cached_end >= c_end
    /\ dl.stock \in DOMAIN results
    /\ results[dl.stock] = TRUE

C6_EveryIdentifierRecorded ==
    /\ [](run_pc = "done" =>
            /\ DOMAIN results = Universe
            /\ \A s \in Universe : results[s] \in BOOLEAN
            /\ run_count = Cardinality({s \in Universe : results[s] = TRUE}))
    /\ [](run_pc = "running" => DOMAIN results = {run_order[j] : j \in 1..(run_i - 1)})
    /\ [][run_pc = "running" =>
            \A s \in DOMAIN results :
                s \in DOMAIN results' /\ results'[s] = results[s]]_vars

\* a run ended with one identifier failed and a later one succeeded
C6_Witness ==
    /\ run_pc = "done"
    /\ results[run_order[1]] = FALSE
    /\ results[run_order[2]] = TRUE
    /\ run_count = 1

\* C7: with no cache for an identifier and the provider answering the
\* requested range with n > 0 rows, the mode is full, the identifier
\* succeeds, its file holds exactly those rows and the recorded range is the
\* first and last fetched date.
C7_FullDownloadSaves ==
    (/\ dl.mode # "none_yet"
     /\ ~ dl.cached
     /\ jq_up
     /\ MarketFrame(CfgStartDate, c_end) # <<>>)
    => /\ dl.mode = "full"
       /\ dl.ret
       /\ StoredFrames(files, dl.stock) = {MarketFrame(CfgStartDate, c_end)}
       /\ meta[dl.stock].exists
       /\ meta[dl.stock].start = CfgStartDate
       /\ meta[dl.stock].end = c_end

\* C11: a cache file of the download script that exists but does not parse
\* is treated as absent: the identifier is processed by the full download
\* (one get_price call over the whole range, no incremental call), rows that
\* come back replace the file, and nothing but a failure of that get_price
\* call makes the identifier fail.
C11_UnreadableCacheFullMode ==
    [][LET stock == sc_order[sc_i]
       IN (/\ IsScriptStep
           /\ sc_listed[stock] = "listed"
           /\ sc_last'.branch # "none_yet"
           /\ sc_files[stock].kind # "nofile"
           /\ ~ CsvReadable(sc_files[stock]))
          => /\ sc_last'.branch = "full"
             /\ sc_last'.calls = 1
             /\ sc_last'.inc = "not_called"
             /\ sc_last'.raised => sc_last'.full = "raises"
             /\ sc_last'.full = "rows" =>
                   /\ ~ sc_last'.raised
                   /\ sc_last'.df = MarketFrame(ListingDate, sc_latest)
                   /\ sc_files'[stock] = WriteParquet(MarketFrame(ListingDate, sc_latest))]_vars

\* an identifier whose cache file held unparseable bytes went through the
\* full download, and the fetched rows replaced the file
C11_Witness ==
    /\ sc_pc = "running"
    /\ sc_last.before = Corrupt
    /\ sc_last.branch = "full"
    /\ sc_last.full = "rows"
    /\ ~ sc_last.raised
    /\ Len(sc_last.df) >= 2
    /\ sc_files[sc_last.stock] = WriteParquet(sc_last.df)

(***************************************************************************)
(* Code conversion on its own: a string is converted, and what comes back   *)
(* is converted once more.                                                  *)
(***************************************************************************)
InitCode ==
    /\ nz_pc = "ready"
    /\ nz_raw \in Strings(MaxCodeLen)
    /\ nz_out = NotConverted
    /\ nz_out2 = NotConverted

\* convert_to_jq_code(nz_raw)
Convert ==
    /\ nz_pc = "ready"
    /\ nz_out' = ConvertToJqCode(nz_raw)
    /\ nz_pc' = "once"
    /\ UNCHANGED <<nz_raw, nz_out2, mergeVars, diskVars, storeVars, fetchVars,
                   cacheVars, scriptVars, configVars, updateVars, validVars>>

\* convert_to_jq_code on the string the first call returned
ConvertAgain ==
    /\ nz_pc = "once"
    /\ nz_out.status = "ok"
    /\ nz_out2' = ConvertToJqCode(nz_out.code)
    /\ nz_pc' = "twice"
    /\ UNCHANGED <<nz_raw, nz_out, mergeVars, diskVars, storeVars, fetchVars,
                   cacheVars, scriptVars, configVars, updateVars, validVars>>

NextCode ==
    \/ Convert
    \/ ConvertAgain

InitSpecCode == InitCode /\ IdleMerge /\ IdleDisk /\ IdleStore /\ IdleFetch /\ IdleCache /\ IdleScript /\ IdleConfig /\ IdleUpdate /\ IdleValid

SpecCode == InitSpecCode /\ [][NextCode]_vars

\* the rule table of the code normalizer, in order: prefix and exchange
RuleTable ==
    << [prefix |-> <<"6", "0">>,      exchange |-> "XSHG"],
       [prefix |-> <<"9", "0", "0">>, exchange |-> "XSHG"],
       [prefix |-> <<"0", "0">>,      exchange |-> "XSHE"],
       [prefix |-> <<"3", "0">>,      exchange |-> "XSHE"],
       [prefix |-> <<"2", "0", "0">>, exchange |-> "XSHE"],
       [prefix |-> <<"6", "8", "8">>, exchange |-> "XSHG"],
       [prefix |-> <<"8">>,           exchange |-> "BJ"] >>

\* the indices of the rules whose prefix the code starts with
Matching(code) == {i \in DOMAIN RuleTable : StartsWith(code, RuleTable[i].prefix)}

\* the exchange of the first matching rule
FirstMatch(code) ==
    RuleTable[CHOOSE i \in Matching(code) : \A j \in Matching(code) : i <= j].exchange

\* C12: the code of a call (the argument without surrounding blanks) that
\* holds no separator comes back with the exchange of the first rule of the
\* table whose prefix it starts with appended after a separator; '8001'
\* comes back as '8001.BJ'; a code that starts with no rule's prefix raises
\* the ValueError and nothing comes back.
C12_RuleTableFirstMatch ==
    (nz_pc # "ready" /\ ~ HasDot(Strip(nz_raw))) =>
        /\ Matching(Strip(nz_raw)) # {} =>
              /\ nz_out.status = "ok"
              /\ nz_out.code = Strip(nz_raw) \o <<".", FirstMatch(Strip(nz_raw))>>
        /\ Matching(Strip(nz_raw)) = {} =>
              /\ nz_out.status = "ValueError"
              /\ nz_out.code = <<>>
        /\ nz_raw = <<"8", "0", "0", "1">> =>
              nz_out = Converted(<<"8", "0", "0", "1", ".", "BJ">>)
        /\ nz_raw = <<"6", "8", "8">> => nz_out = Converted(<<"6", "8", "8", ".", "XSHG">>)

\* the code 8001 was converted to the exchange-C form
C12_Witness ==
    /\ nz_pc = "once"
    /\ nz_raw = <<"8", "0", "0", "1">>
    /\ nz_out = Converted(<<"8", "0", "0", "1", ".", "BJ">>)

\* a code that starts with no rule's prefix was refused
C12_WitnessInvalid ==
    /\ nz_pc = "once"
    /\ nz_raw = <<"6", "8", "1">>
    /\ nz_out = ValueError

\* C13 as claimed: a string that converts converts to the same string again,
\* and every argument that holds the separator comes back unchanged.
C13_IdempotentUnchanged ==
    /\ nz_pc = "twice" => nz_out2 = nz_out
    /\ (nz_pc # "ready" /\ HasDot(nz_raw)) => nz_out = Converted(nz_raw)

\* C13 amended: a string that converts converts to the same string again,
\* and every argument that holds the separator comes back with its leading
\* and trailing blanks removed and otherwise unchanged, whatever its prefix
\* (unchanged when it has no such blanks).
C13_IdempotentStripped ==
    /\ nz_pc = "twice" => nz_out2 = nz_out
    /\ (nz_pc # "ready" /\ HasDot(nz_raw)) =>
          /\ nz_out.status = "ok"
          /\ nz_out.code = Strip(nz_raw)
          /\ (nz_raw[1] # " " /\ nz_raw[Len(nz_raw)] # " ") => nz_out.code = nz_raw

\* a qualified code with a prefix of no rule and a leading blank was
\* converted twice
C13_Witness ==
    /\ nz_pc = "twice"
    /\ nz_raw = <<" ", "1", ".", "0">>
    /\ nz_out = Converted(<<"1", ".", "0">>)
    /\ nz_out2 = nz_out

\* C14: download_all_stocks visits the identifiers in the order the
\* configured pool first names them, in every run.
C14_InsertionOrderVisited ==
    (run_pc = "running" /\ run_i >= 2) => dl.stock = InsertionOrder[run_i - 1]

(***************************************************************************)
(* The save step of download_single_stock on its own: the emptiness test,   *)
(* get_listing_year, save_data and update_cache_meta, entered with a frame  *)
(* in hand.  (In StockCache as it stands _fetch_stock_data hands no frame   *)
(* to this step.)                                                           *)
(***************************************************************************)
InitLayout ==
    /\ sm_format \in {"parquet", "csv"}
    /\ EmptyDisk
    /\ c_end \in Dates
    /\ c_by_year \in BOOLEAN
    /\ meta = [s \in Universe |-> NoMeta]
    /\ jq_up = TRUE
    /\ run_pc = "save_step"
    /\ run_force = FALSE
    /\ run_order = <<>>
    /\ run_i = 0
    /\ results = <<>>
    /\ run_count = -1
    /\ dl = NoDl
    /\ gs = NoGs

\* lines 183-196 for stock_code with the frame data; year is what
\* get_listing_year answers: the listing year, or 2000 when the lookup fails
SaveStep(stock_code, data, year) ==
    /\ run_pc = "save_step"
    /\ LET out == SaveAndRecord(sm_format, c_by_year, files, dirs, meta, stock_code,
                                "full", FetchOut("returned", data), data,
                                CfgStartDate, c_end, year)
       IN /\ files' = out.files
          /\ dirs' = out.dirs
          /\ meta' = out.meta
          /\ dl' = [stock |-> stock_code, ret |-> out.ret, mode |-> out.mode,
                    fetch |-> out.fetch, fetched |-> out.fetched, data |-> out.data,
                    cached |-> CheckCacheExists(meta, files, stock_code),
                    cached_end |-> meta[stock_code].end, inc_start |-> 0]
    /\ UNCHANGED <<c_end, c_by_year, jq_up, run_pc, run_force, run_order, run_i,
                   results, run_count, gs, sm_format, mergeVars, storeVars, fetchVars,
                   scriptVars, codeVars, configVars, updateVars, validVars>>

NextLayout ==
    \E stock_code \in Universe, d \in 0..MaxDate, year \in {ListedYear, DefaultYear} :
        /\ d <= c_end
        /\ SaveStep(stock_code, MarketFrame(CfgStartDate, d), year)

InitSpecLayout == InitLayout /\ IdleMerge /\ IdleStore /\ IdleFetch /\ IdleScript /\ IdleCode /\ IdleConfig /\ IdleUpdate /\ IdleValid

SpecLayout == InitSpecLayout /\ [][NextLayout]_vars

\* the paths that hold a data file of an identifier
DataFiles(fs, stock_code) ==
    {p \in Paths : p.name = ReplaceDots(stock_code) /\ fs[p].kind # "nofile"}

LastCachedDate(content) == ReadCsv(content)[Len(ReadCsv(content))].date

\* C16: when a cache exists and ends before the requested end-date, the
\* identifier is served by exactly one fetch request, which starts no
\* earlier than the cached end-date; the dates before it are not requested
\* again, in StockCache and in the download script alike.
C16_IncrementalOneFetch ==
    /\ [][(IsDownloadStep /\ dl'.mode = "incremental")
            => /\ dl'.fetch # "not_called"
               /\ dl'.inc_start >= dl'.cached_end]_vars
    /\ [][LET stock == sc_order[sc_i]
          IN (/\ IsScriptStep
              /\ sc_listed[stock] = "listed"
              /\ sc_last'.branch # "none_yet"
              /\ CsvReadable(sc_files[stock])
              /\ ReadCsv(sc_files[stock]) # <<>>
              /\ LastCachedDate(sc_files[stock]) < sc_latest)
             => /\ sc_last'.calls = 1
                /\ sc_last'.inc # "not_called"
                /\ sc_last'.full = "not_called"
                /\ sc_last'.inc_start >= LastCachedDate(sc_files[stock])]_vars

\* the frame a data file holds
FrameIn(content) ==
    IF content.kind = "parquet" THEN ReadParquet(content)
    ELSE IF content.kind = "csv" THEN ReadCsv(content)
    ELSE <<>>

\* the last date a data file covers (0 for no rows)
CoveredEnd(content) ==
    IF FrameIn(content) = <<>> THEN 0
    ELSE FrameIn(content)[Len(FrameIn(content))].date

InitConfig == IdleConfig

\* StockCache(custom_config): _merge_configs, convert_stock_pool,
\* get_all_stocks_from_pool
Build(given, custom_config) ==
    /\ cfg_builds < MaxBuilds
    /\ cfg_globals' = MergeConfigsGlobals(cfg_globals, given, custom_config)
    /\ cfg_self' = MergeConfigs(cfg_globals, given, custom_config)
    /\ cfg_all' = GetAllStocksFromPool(
                      ConvertStockPool(
                          MergeConfigs(cfg_globals, given, custom_config)["pool_stocks"]))
    /\ cfg_custom' = [given |-> given, dict |-> custom_config]
    /\ cfg_builds' = cfg_builds + 1
    /\ UNCHANGED <<mergeVars, diskVars, storeVars, fetchVars, cacheVars, scriptVars,
                   codeVars, updateVars, validVars>>

NextConfig ==
    \/ Build(FALSE, <<>>)
    \/ \E custom_config \in CustomConfigs : Build(TRUE, custom_config)

InitSpecConfig == InitConfig /\ IdleMerge /\ IdleDisk /\ IdleStore /\ IdleFetch /\ IdleCache /\ IdleScript /\ IdleCode /\ IdleUpdate /\ IdleValid

SpecConfig == InitSpecConfig /\ [][NextConfig]_vars

\* the codes of all categories of a pool, as a set
PoolCodes(pool) ==
    UNION {{pool[category][i] : i \in 1..Len(pool[category])} : category \in DOMAIN pool}

\* C18: building StockCache objects, with or without a custom
\* configuration, leaves the default configuration dicts as the module
\* defines them, so an object built without custom configuration has the
\* original defaults; the universe of an object is the set of the valid
\* codes of all categories of its pool, converted, invalid ones left out.
C18_DefaultsReadOnly ==
    /\ cfg_globals = ConfigDefaults
    /\ (cfg_builds > 0 /\ ~ cfg_custom.given) => cfg_self = ConfigDefaults
    /\ cfg_builds > 0 =>
          cfg_all = {ConvertToJqCode(c).code :
                        c \in {x \in PoolCodes(cfg_self["pool_stocks"]) :
                                  ConvertToJqCode(x).status = "ok"}}

C20_ForceFullFetchesAll ==
    (run_force /\ dl.mode # "none_yet") =>
        /\ dl.mode = "full"
        /\ jq_up => /\ dl.fetch = "returned"
                    /\ dl.fetched = MarketFrame(CfgStartDate, c_end)
        /\ dl.ret => dl.fetched \in StoredFrames(files, dl.stock)


(***************************************************************************)
(* StockCache.update_cache(categories) over a data directory that may       *)
(* already hold cached series.                                              *)
(***************************************************************************)
\* self.pool_stocks after convert_stock_pool: two categories that share an
\* identifier
SelfPoolStocks ==
    [category \in {"core", "grid"} |->
        IF category = "core" THEN <<Code1>> ELSE <<Code2, Code1>>]

\* the category names a caller may pass: the pool's and one it does not have
CategoryNames == {"core", "grid", "other"}

\* the lists of categories a caller may pass: every ordering of every subset
\* of the names, and a list that names a category twice
CategoryLists ==
    UNION {{l \in [1..Cardinality(K) -> K] : \A i, j \in DOMAIN l : i # j => l[i] # l[j]} :
           K \in SUBSET CategoryNames}
        \cup {<<"core", "core">>}

\* the argument categories: None or a list
CategoryArgs == {NoCategories} \cup {[given |-> TRUE, list |-> l] : l \in CategoryLists}

\* a mutated target set: every identifier of the pool, whatever was listed
TargetStocksWholePool(pool, categories) ==
    UNION {{pool[category][i] : i \in 1..Len(pool[category])} : category \in DOMAIN pool}

\* update_cache: target_stocks, the set filled from the listed categories
\* that are keys of the pool
TargetStocks(pool, categories) ==
    UNION {{pool[categories[k]][i] : i \in 1..Len(pool[categories[k]])} :
           k \in {j \in 1..Len(categories) : categories[j] \in DOMAIN pool}}

\* the data directory a StockCache with the default storage settings left:
\* per identifier nothing, or rows through date d under its listing year
UpdateCacheStates == {cs \in CacheStates : cs.has => cs.year = ListedYear}

InitUpdate ==
    /\ sm_format = "parquet"
    /\ c_end \in Dates
    /\ c_by_year = TRUE
    /\ jq_up \in BOOLEAN
    /\ \E cs \in [Universe -> UpdateCacheStates] :
          /\ files = [p \in Paths |->
                        IF \E s \in Universe :
                              cs[s].has /\ p = GetFilePath("parquet", s, cs[s].year)
                        THEN LET s == CHOOSE s \in Universe :
                                    cs[s].has /\ p = GetFilePath("parquet", s, cs[s].year)
                             IN WriteFile("parquet", CachedFrame(cs[s].d))
                        ELSE NoFile]
          /\ dirs = {cs[s].year : s \in {t \in Universe : cs[t].has}}
          /\ meta = [s \in Universe |->
                        IF cs[s].has
                        THEN MetaEntry(GetFilePath("parquet", s, cs[s].year),
                                       CfgStartDate, cs[s].d, cs[s].d)
                        ELSE NoMeta]
    /\ run_pc = "idle"
    /\ run_force = FALSE
    /\ run_order \in Orders
    /\ run_i = 0
    /\ results = <<>>
    /\ run_count = -1
    /\ dl = NoDl
    /\ gs = NoGs
    /\ uc_pc = "idle"
    /\ uc_cats = NoCategories
    /\ uc_todo = {}
    /\ uc_results = <<>>

\* update_cache(categories) is entered: with None download_all_stocks() is
\* called, else target_stocks is built and results = {}
UpdateCacheStart(categories) ==
    /\ uc_pc \in {"idle", "done"}
    /\ uc_cats' = categories
    /\ uc_results' = <<>>
    /\ dl' = NoDl
    /\ IF ~ categories.given
       THEN /\ uc_pc' = "all"
            /\ uc_todo' = {}
            /\ run_pc' = "running"
            /\ run_force' = FALSE
            /\ run_i' = 1
            /\ results' = <<>>
            /\ run_count' = -1
       ELSE /\ uc_pc' = "loop"
            /\ uc_todo' = TargetStocks(SelfPoolStocks, categories.list)
            /\ UNCHANGED <<run_pc, run_force, run_i, results, run_count>>
    /\ UNCHANGED <<c_end, c_by_year, meta, jq_up, run_order, gs,
                   mergeVars, diskVars, storeVars, fetchVars, scriptVars, codeVars,
                   configVars, validVars>>

\* one iteration of the loop over the set target_stocks
UpdateCacheStep ==
    /\ uc_pc = "loop"
    /\ \E stock \in uc_todo :
       \E inc_start \in IncrementalStarts(meta, stock),
          year \in {ListedYear, DefaultYear} :
            LET out == DownloadSingleStock(sm_format, c_by_year, files, dirs, meta,
                                           jq_up, stock, FALSE, CfgStartDate,
                                           c_end, inc_start, year)
            IN /\ files' = out.files
               /\ dirs' = out.dirs
               /\ meta' = out.meta
               /\ uc_results' = [s \in DOMAIN uc_results \cup {stock} |->
                                    IF s = stock THEN out.ret ELSE uc_results[s]]
               /\ uc_todo' = uc_todo \ {stock}
               /\ dl' = [stock |-> stock, ret |-> out.ret, mode |-> out.mode,
                         fetch |-> out.fetch, fetched |-> out.fetched,
                         data |-> out.data,
                         cached |-> CheckCacheExists(meta, files, stock),
                         cached_end |-> meta[stock].end,
                         inc_start |-> IF out.mode = "incremental"
                                       THEN inc_start ELSE 0]
    /\ UNCHANGED <<c_end, c_by_year, jq_up, run_pc, run_force, run_order, run_i,
                   results, run_count, gs, sm_format, uc_pc, uc_cats,
                   mergeVars, storeVars, fetchVars, scriptVars, codeVars, configVars, validVars>>

\* update_cache returns: its own results dict, or what download_all_stocks
\* returned
UpdateCacheReturn ==
    /\ \/ /\ uc_pc = "loop"
          /\ uc_todo = {}
          /\ uc_results' = uc_results
       \/ /\ uc_pc = "all"
          /\ run_pc = "done"
          /\ uc_results' = results
    /\ uc_pc' = "done"
    /\ UNCHANGED <<uc_cats, uc_todo, cacheVars,
                   mergeVars, diskVars, storeVars, fetchVars, scriptVars, codeVars,
                   configVars, validVars>>

NextUpdate ==
    \/ \E categories \in CategoryArgs : UpdateCacheStart(categories)
    \/ UpdateCacheStep
    \/ UpdateCacheReturn
    \/ RunStep
    \/ RunFinish

InitSpecUpdate == InitUpdate /\ IdleMerge /\ IdleStore /\ IdleFetch /\ IdleScript /\ IdleCode /\ IdleConfig /\ IdleValid

SpecUpdate == InitSpecUpdate /\ [][NextUpdate]_vars

\* the paths an identifier's files may have
PathsOf(stock_code) == {p \in Paths : p.name = ReplaceDots(stock_code)}

\* the identifiers that some listed category of the pool names
ListedIdentifiers(categories) ==
    {s \in Universe :
        \E k \in 1..Len(categories) :
            /\ categories[k] \in DOMAIN SelfPoolStocks
            /\ \E i \in 1..Len(SelfPoolStocks[categories[k]]) :
                  SelfPoolStocks[categories[k]][i] = s}

\* C21: update_cache(categories) with a list returns one boolean entry for
\* each identifier of the union of the listed categories the pool has, and
\* for no other; while it runs, download_single_stock is called only for
\* those identifiers, the files and the metadata of every other identifier
\* stay as they were, and an identifier whose download failed is followed by
\* the remaining ones; with None the mapping is the one download_all_stocks
\* returns, one entry for every identifier of the pool.
C21_UpdateCacheByCategory ==
    /\ [][(uc_pc' = "done" /\ uc_cats'.given)
            => /\ DOMAIN uc_results' = ListedIdentifiers(uc_cats'.list)
               /\ \A s \in DOMAIN uc_results' : uc_results'[s] \in BOOLEAN]_vars
    /\ [][(uc_pc = "loop" /\ uc_todo' # uc_todo)
            => /\ dl'.stock \in ListedIdentifiers(uc_cats.list)
               /\ dl'.stock \notin DOMAIN uc_results
               /\ uc_todo' = uc_todo \ {dl'.stock}
               /\ DOMAIN uc_results' = DOMAIN uc_results \cup {dl'.stock}
               /\ \A s \in Universe \ {dl'.stock} :
                     /\ meta'[s] = meta[s]
                     /\ \A p \in PathsOf(s) : files'[p] = files[p]]_vars
    /\ [][(uc_pc' = "done" /\ ~ uc_cats'.given)
            => /\ uc_results' = results
               /\ run_pc = "done"
               /\ ~ run_force
               /\ DOMAIN uc_results' = Universe
               /\ run_count = SuccessCount(results)]_vars

\* update_cache(['core', 'other']) has returned: one entry, for the
\* identifier of 'core', whose download failed, and the other identifier's
\* cache is still on disk
C21_Witness ==
    /\ uc_pc = "done"
    /\ uc_cats = [given |-> TRUE, list |-> <<"core", "other">>]
    /\ DOMAIN uc_results = {Code1}
    /\ ~ uc_results[Code1]
    /\ CheckCacheExists(meta, files, Code2)

\* update_cache(['grid']) has returned with both identifiers processed, the
\* first one failed
C21_WitnessFailureThenNext ==
    /\ uc_pc = "done"
    /\ uc_cats = [given |-> TRUE, list |-> <<"grid">>]
    /\ DOMAIN uc_results = {Code1, Code2}
    /\ \E s \in Universe : ~ uc_results[s]

\* update_cache(None) has returned what download_all_stocks returned
C21_WitnessNone ==
    /\ uc_pc = "done"
    /\ ~ uc_cats.given
    /\ DOMAIN uc_results = Universe


\* C22: under partitioning by listing year, once download_single_stock has
\* succeeded for an identifier in the run just finished, get_stock_data for
\* that identifier returns the series its file holds, never None.
C22_ReadWhereSaved ==
    [][(/\ run_pc = "done"
        /\ c_by_year
        /\ gs' # gs
        /\ gs'.called
        /\ gs'.stock \in DOMAIN results
        /\ results[gs'.stock])
          => /\ gs'.df # None
             /\ gs'.df \in StoredFrames(files', gs'.stock)]_vars


\* C23: when an identifier's file holds a series through the requested
\* end-date, as a run that downloaded through that date leaves it (the full
\* download included), the next visit with the same end-date makes no fetch
\* call and leaves the file as it is, in the download script and in
\* StockCache alike.
C23_SecondRunNoOp ==
    /\ [][LET stock == sc_order[sc_i]
          IN (/\ IsScriptStep
              /\ sc_listed[stock] = "listed"
              /\ sc_files[stock].kind \in {"csv", "parquet"}
              /\ CoveredEnd(sc_files[stock]) = sc_latest)
             => /\ sc_last'.calls = 0
                /\ sc_last'.full = "not_called"
                /\ sc_files'[stock] = sc_files[stock]]_vars
    /\ [][LET stock == run_order[run_i]
          IN (/\ IsDownloadStep
              /\ ~ run_force
              /\ CheckCacheExists(meta, files, stock)
              /\ meta[stock].end = c_end)
             => /\ dl'.fetch = "not_called"
                /\ dl'.ret
                /\ files' = files
                /\ meta' = meta]_vars


\* the storage calls that only read
ReadOnlyOps == {"load", "exists", "size", "list"}

\* C24: load_data, file_exists, get_file_size and list_files leave the disk
\* as it is: no file and no directory is created, changed or removed, also
\* when the partition they are given does not exist yet.
C24_ReadOnlyOpsNoEffect ==
    [][(st_op' # st_op /\ st_op'.op \in ReadOnlyOps)
          => /\ files' = files
             /\ dirs' = dirs]_vars


\* C25: convert_format leaves self.format as it was on every path; it
\* returns True only when the file of the new format holds the loaded series
\* afterwards; the file of the configured format is still there with the
\* series it held.
C25_ConvertKeepsFormat ==
    [][st_op'.op = "convert"
          => LET orig == GetFilePath(sm_format, Code1, st_op'.year)
             IN /\ sm_format' = sm_format
                /\ st_op'.status \in {"True", "False"}
                /\ st_op'.status = "True" =>
                      /\ st_op'.path.ext \in {"parquet", "csv"}
                      /\ st_op'.path.dir = orig.dir
                      /\ files'[st_op'.path].kind = st_op'.path.ext
                      /\ FrameIn(files'[st_op'.path]) = FrameIn(files[orig])
                /\ files'[orig].kind = files[orig].kind
                /\ FrameIn(files'[orig]) = FrameIn(files[orig])
                /\ \A p \in Paths : files[p].kind # "nofile" => files'[p].kind # "nofile"]_vars

\* a parquet file of several rows was converted to csv: both files hold the
\* series and the manager still works in parquet
C25_Witness ==
    /\ st_op.op = "convert"
    /\ st_op.status = "True"
    /\ sm_format = "parquet"
    /\ st_op.path.ext = "csv"
    /\ files[st_op.path].kind = "csv"
    /\ Len(FrameIn(files[st_op.path])) >= 2
    /\ files[GetFilePath("parquet", Code1, st_op.year)].kind = "parquet"

\* a conversion to an unsupported format failed inside save_data and the
\* manager still works in csv
C25_WitnessFailed ==
    /\ st_op.op = "convert"
    /\ st_op.status = "False"
    /\ st_op.path.ext = "json"
    /\ sm_format = "csv"
    /\ files[GetFilePath("csv", Code1, st_op.year)].kind = "csv"

\* a conversion found no source file
C25_WitnessAbsent ==
    /\ st_op.op = "convert"
    /\ st_op.status = "False"
    /\ files[GetFilePath(sm_format, Code1, st_op.year)].kind = "nofile"


(***************************************************************************)
(* DataValidator.validate_batch_data on a mapping of up to two identifiers. *)
(***************************************************************************)
InitValid ==
    /\ vb_pc = "ready"
    /\ vb_min \in MinDataPointsValues
    /\ vb_ratio \in MaxNullRatioValues
    /\ vb_input \in BatchInputs
    /\ vb_i = 0
    /\ vb_results = <<>>

\* validate_batch_data(data_dict) is entered: results = {}
ValidateBatchStart ==
    /\ vb_pc = "ready"
    /\ vb_pc' = "loop"
    /\ vb_i' = 1
    /\ vb_results' = <<>>
    /\ UNCHANGED <<vb_min, vb_ratio, vb_input,
                   mergeVars, diskVars, storeVars, fetchVars, cacheVars, scriptVars,
                   codeVars, configVars, updateVars>>

\* one iteration of the loop over data_dict.items()
ValidateBatchStep ==
    /\ vb_pc = "loop"
    /\ vb_i <= Len(ItemsOrder(vb_input))
    /\ LET stock_code == ItemsOrder(vb_input)[vb_i]
           validation_result == ValidateStockData(vb_min, vb_ratio, vb_input[stock_code])
       IN vb_results' = [s \in DOMAIN vb_results \cup {stock_code} |->
                            IF s = stock_code THEN validation_result ELSE vb_results[s]]
    /\ vb_i' = vb_i + 1
    /\ UNCHANGED <<vb_pc, vb_min, vb_ratio, vb_input,
                   mergeVars, diskVars, storeVars, fetchVars, cacheVars, scriptVars,
                   codeVars, configVars, updateVars>>

\* after the loop: valid_count reads result["is_valid"] of every result,
\* a KeyError when a result has no such key; then return results
ValidateBatchCount ==
    /\ vb_pc = "loop"
    /\ vb_i > Len(ItemsOrder(vb_input))
    /\ vb_pc' = IF \E s \in DOMAIN vb_results : "is_valid" \notin vb_results[s].keys
                THEN "raised" ELSE "returned"
    /\ UNCHANGED <<vb_min, vb_ratio, vb_input, vb_i, vb_results,
                   mergeVars, diskVars, storeVars, fetchVars, cacheVars, scriptVars,
                   codeVars, configVars, updateVars>>

NextValid ==
    \/ ValidateBatchStart
    \/ ValidateBatchStep
    \/ ValidateBatchCount

InitSpecValid == InitValid /\ IdleMerge /\ IdleDisk /\ IdleStore /\ IdleFetch /\ IdleCache /\ IdleScript /\ IdleCode /\ IdleConfig /\ IdleUpdate

SpecValid == InitSpecValid /\ [][NextValid]_vars

\* the series of an identifier counts as valid: enough rows and a null
\* ratio that does not exceed the maximum
ShouldBeValid(data, min_data_points, ratio) ==
    /\ data.kind = "frame"
    /\ Len(data.rows) >= min_data_points
    /\ NullCount(data.rows) * ratio.den <= ratio.num * TotalCells(data.rows)

\* C26: validate_batch_data never raises and returns a result for every
\* identifier of its input, a None or empty series included; a series is
\* valid exactly when it has at least min_data_points rows and its null
\* ratio does not exceed max_null_ratio, whatever warnings it has.
C26_BatchNeverRaises ==
    /\ vb_pc # "raised"
    /\ vb_pc = "returned" =>
          /\ DOMAIN vb_results = DOMAIN vb_input
          /\ \A s \in DOMAIN vb_input :
                vb_results[s].is_valid = ShouldBeValid(vb_input[s], vb_min, vb_ratio)

====
